---------------------------- MODULE Spec2Model ----------------------------
(***************************************************************************)
(* A model of breezy's diff-delta.c: the Rabin-fingerprint delta index     *)
(* (create_delta_index, create_delta_index_from_delta, pack_delta_index,   *)
(* limit_hash_buckets) and the delta encoder (create_delta).               *)
(*                                                                         *)
(* Conventions.  Byte buffers live in an immutable catalogue, Buffers; a   *)
(* buffer pointer is its catalogue number and 0 is the null pointer.  A    *)
(* position inside a buffer is the C offset from its first byte, so the    *)
(* byte at offset k of buffer b is Buffers[b][k + 1].  A 32-bit unsigned   *)
(* value is the pair <<high 16 bits, low 16 bits>>, which keeps the full   *)
(* width of the fingerprint arithmetic.  A struct source_info pointer is   *)
(* the position of the record in the variable srcs; an index_entry's ptr   *)
(* is the offset inside the buffer of its source.                          *)
(***************************************************************************)
EXTENDS Integers, Sequences, FiniteSets, TLC

(* ----------------------------------------------------------------------- *)
(* Program constants                                                       *)
(* ----------------------------------------------------------------------- *)
HASH_LIMIT == 64
RABIN_SHIFT == 23
RABIN_WINDOW == 16
EXTRA_NULLS == 4
MAX_OP_SIZE == 5 + 5 + 1 + RABIN_WINDOW + 7
NULL == 0

NoSlot == -1
Uninit == -1

VARIABLES
  srcs,    \* the source_info records of the indexed sources, in order
  index,   \* the caller's struct delta_index pointer
  pc,      \* "idle", "scan" (inside create_delta's loop) or "returned"
  cd,      \* the locals of the running create_delta call
  call,    \* the call that is running or has just returned
  lim      \* the input and result of a limit_hash_buckets call

T ==
  <<
    <<\h0000, \h0000>>, <<\hab59, \hb4d1>>, <<\h56b3, \h69a2>>, <<\hfdea, \hdd73>>,
    <<\h063f, \h6795>>, <<\had66, \hd344>>, <<\h508c, \h0e37>>, <<\hfbd5, \hbae6>>,
    <<\h0c7e, \hcf2a>>, <<\ha727, \h7bfb>>, <<\h5acd, \ha688>>, <<\hf194, \h1259>>,
    <<\h0a41, \ha8bf>>, <<\ha118, \h1c6e>>, <<\h5cf2, \hc11d>>, <<\hf7ab, \h75cc>>,
    <<\h18fd, \h9e54>>, <<\hb3a4, \h2a85>>, <<\h4e4e, \hf7f6>>, <<\he517, \h4327>>,
    <<\h1ec2, \hf9c1>>, <<\hb59b, \h4d10>>, <<\h4871, \h9063>>, <<\he328, \h24b2>>,
    <<\h1483, \h517e>>, <<\hbfda, \he5af>>, <<\h4230, \h38dc>>, <<\he969, \h8c0d>>,
    <<\h12bc, \h36eb>>, <<\hb9e5, \h823a>>, <<\h440f, \h5f49>>, <<\hef56, \heb98>>,
    <<\h31fb, \h3ca8>>, <<\h9aa2, \h8879>>, <<\h6748, \h550a>>, <<\hcc11, \he1db>>,
    <<\h37c4, \h5b3d>>, <<\h9c9d, \hefec>>, <<\h6177, \h329f>>, <<\hca2e, \h864e>>,
    <<\h3d85, \hf382>>, <<\h96dc, \h4753>>, <<\h6b36, \h9a20>>, <<\hc06f, \h2ef1>>,
    <<\h3bba, \h9417>>, <<\h90e3, \h20c6>>, <<\h6d09, \hfdb5>>, <<\hc650, \h4964>>,
    <<\h2906, \ha2fc>>, <<\h825f, \h162d>>, <<\h7fb5, \hcb5e>>, <<\hd4ec, \h7f8f>>,
    <<\h2f39, \hc569>>, <<\h8460, \h71b8>>, <<\h798a, \haccb>>, <<\hd2d3, \h181a>>,
    <<\h2578, \h6dd6>>, <<\h8e21, \hd907>>, <<\h73cb, \h0474>>, <<\hd892, \hb0a5>>,
    <<\h2347, \h0a43>>, <<\h881e, \hbe92>>, <<\h75f4, \h63e1>>, <<\hdead, \hd730>>,
    <<\h63f6, \h7950>>, <<\hc8af, \hcd81>>, <<\h3545, \h10f2>>, <<\h9e1c, \ha423>>,
    <<\h65c9, \h1ec5>>, <<\hce90, \haa14>>, <<\h337a, \h7767>>, <<\h9823, \hc3b6>>,
    <<\h6f88, \hb67a>>, <<\hc4d1, \h02ab>>, <<\h393b, \hdfd8>>, <<\h9262, \h6b09>>,
    <<\h69b7, \hd1ef>>, <<\hc2ee, \h653e>>, <<\h3f04, \hb84d>>, <<\h945d, \h0c9c>>,
    <<\h7b0b, \he704>>, <<\hd052, \h53d5>>, <<\h2db8, \h8ea6>>, <<\h86e1, \h3a77>>,
    <<\h7d34, \h8091>>, <<\hd66d, \h3440>>, <<\h2b87, \he933>>, <<\h80de, \h5de2>>,
    <<\h7775, \h282e>>, <<\hdc2c, \h9cff>>, <<\h21c6, \h418c>>, <<\h8a9f, \hf55d>>,
    <<\h714a, \h4fbb>>, <<\hda13, \hfb6a>>, <<\h27f9, \h2619>>, <<\h8ca0, \h92c8>>,
    <<\h520d, \h45f8>>, <<\hf954, \hf129>>, <<\h04be, \h2c5a>>, <<\hafe7, \h988b>>,
    <<\h5432, \h226d>>, <<\hff6b, \h96bc>>, <<\h0281, \h4bcf>>, <<\ha9d8, \hff1e>>,
    <<\h5e73, \h8ad2>>, <<\hf52a, \h3e03>>, <<\h08c0, \he370>>, <<\ha399, \h57a1>>,
    <<\h584c, \hed47>>, <<\hf315, \h5996>>, <<\h0eff, \h84e5>>, <<\ha5a6, \h3034>>,
    <<\h4af0, \hdbac>>, <<\he1a9, \h6f7d>>, <<\h1c43, \hb20e>>, <<\hb71a, \h06df>>,
    <<\h4ccf, \hbc39>>, <<\he796, \h08e8>>, <<\h1a7c, \hd59b>>, <<\hb125, \h614a>>,
    <<\h468e, \h1486>>, <<\hedd7, \ha057>>, <<\h103d, \h7d24>>, <<\hbb64, \hc9f5>>,
    <<\h40b1, \h7313>>, <<\hebe8, \hc7c2>>, <<\h1602, \h1ab1>>, <<\hbd5b, \hae60>>,
    <<\h6cb5, \h4671>>, <<\hc7ec, \hf2a0>>, <<\h3a06, \h2fd3>>, <<\h915f, \h9b02>>,
    <<\h6a8a, \h21e4>>, <<\hc1d3, \h9535>>, <<\h3c39, \h4846>>, <<\h9760, \hfc97>>,
    <<\h60cb, \h895b>>, <<\hcb92, \h3d8a>>, <<\h3678, \he0f9>>, <<\h9d21, \h5428>>,
    <<\h66f4, \heece>>, <<\hcdad, \h5a1f>>, <<\h3047, \h876c>>, <<\h9b1e, \h33bd>>,
    <<\h7448, \hd825>>, <<\hdf11, \h6cf4>>, <<\h22fb, \hb187>>, <<\h89a2, \h0556>>,
    <<\h7277, \hbfb0>>, <<\hd92e, \h0b61>>, <<\h24c4, \hd612>>, <<\h8f9d, \h62c3>>,
    <<\h7836, \h170f>>, <<\hd36f, \ha3de>>, <<\h2e85, \h7ead>>, <<\h85dc, \hca7c>>,
    <<\h7e09, \h709a>>, <<\hd550, \hc44b>>, <<\h28ba, \h1938>>, <<\h83e3, \hade9>>,
    <<\h5d4e, \h7ad9>>, <<\hf617, \hce08>>, <<\h0bfd, \h137b>>, <<\ha0a4, \ha7aa>>,
    <<\h5b71, \h1d4c>>, <<\hf028, \ha99d>>, <<\h0dc2, \h74ee>>, <<\ha69b, \hc03f>>,
    <<\h5130, \hb5f3>>, <<\hfa69, \h0122>>, <<\h0783, \hdc51>>, <<\hacda, \h6880>>,
    <<\h570f, \hd266>>, <<\hfc56, \h66b7>>, <<\h01bc, \hbbc4>>, <<\haae5, \h0f15>>,
    <<\h45b3, \he48d>>, <<\heeea, \h505c>>, <<\h1300, \h8d2f>>, <<\hb859, \h39fe>>,
    <<\h438c, \h8318>>, <<\he8d5, \h37c9>>, <<\h153f, \heaba>>, <<\hbe66, \h5e6b>>,
    <<\h49cd, \h2ba7>>, <<\he294, \h9f76>>, <<\h1f7e, \h4205>>, <<\hb427, \hf6d4>>,
    <<\h4ff2, \h4c32>>, <<\he4ab, \hf8e3>>, <<\h1941, \h2590>>, <<\hb218, \h9141>>,
    <<\h0f43, \h3f21>>, <<\ha41a, \h8bf0>>, <<\h59f0, \h5683>>, <<\hf2a9, \he252>>,
    <<\h097c, \h58b4>>, <<\ha225, \hec65>>, <<\h5fcf, \h3116>>, <<\hf496, \h85c7>>,
    <<\h033d, \hf00b>>, <<\ha864, \h44da>>, <<\h558e, \h99a9>>, <<\hfed7, \h2d78>>,
    <<\h0502, \h979e>>, <<\hae5b, \h234f>>, <<\h53b1, \hfe3c>>, <<\hf8e8, \h4aed>>,
    <<\h17be, \ha175>>, <<\hbce7, \h15a4>>, <<\h410d, \hc8d7>>, <<\hea54, \h7c06>>,
    <<\h1181, \hc6e0>>, <<\hbad8, \h7231>>, <<\h4732, \haf42>>, <<\hec6b, \h1b93>>,
    <<\h1bc0, \h6e5f>>, <<\hb099, \hda8e>>, <<\h4d73, \h07fd>>, <<\he62a, \hb32c>>,
    <<\h1dff, \h09ca>>, <<\hb6a6, \hbd1b>>, <<\h4b4c, \h6068>>, <<\he015, \hd4b9>>,
    <<\h3eb8, \h0389>>, <<\h95e1, \hb758>>, <<\h680b, \h6a2b>>, <<\hc352, \hdefa>>,
    <<\h3887, \h641c>>, <<\h93de, \hd0cd>>, <<\h6e34, \h0dbe>>, <<\hc56d, \hb96f>>,
    <<\h32c6, \hcca3>>, <<\h999f, \h7872>>, <<\h6475, \ha501>>, <<\hcf2c, \h11d0>>,
    <<\h34f9, \hab36>>, <<\h9fa0, \h1fe7>>, <<\h624a, \hc294>>, <<\hc913, \h7645>>,
    <<\h2645, \h9ddd>>, <<\h8d1c, \h290c>>, <<\h70f6, \hf47f>>, <<\hdbaf, \h40ae>>,
    <<\h207a, \hfa48>>, <<\h8b23, \h4e99>>, <<\h76c9, \h93ea>>, <<\hdd90, \h273b>>,
    <<\h2a3b, \h52f7>>, <<\h8162, \he626>>, <<\h7c88, \h3b55>>, <<\hd7d1, \h8f84>>,
    <<\h2c04, \h3562>>, <<\h875d, \h81b3>>, <<\h7ab7, \h5cc0>>, <<\hd1ee, \he811>>
  >>

U ==
  <<
    <<\h0000, \h0000>>, <<\h7eb5, \h200d>>, <<\h5633, \hf4cb>>, <<\h2886, \hd4c6>>,
    <<\h073e, \h5d47>>, <<\h798b, \h7d4a>>, <<\h510d, \ha98c>>, <<\h2fb8, \h8981>>,
    <<\h0e7c, \hba8e>>, <<\h70c9, \h9a83>>, <<\h584f, \h4e45>>, <<\h26fa, \h6e48>>,
    <<\h0942, \he7c9>>, <<\h77f7, \hc7c4>>, <<\h5f71, \h1302>>, <<\h21c4, \h330f>>,
    <<\h1cf9, \h751c>>, <<\h624c, \h5511>>, <<\h4aca, \h81d7>>, <<\h347f, \ha1da>>,
    <<\h1bc7, \h285b>>, <<\h6572, \h0856>>, <<\h4df4, \hdc90>>, <<\h3341, \hfc9d>>,
    <<\h1285, \hcf92>>, <<\h6c30, \hef9f>>, <<\h44b6, \h3b59>>, <<\h3a03, \h1b54>>,
    <<\h15bb, \h92d5>>, <<\h6b0e, \hb2d8>>, <<\h4388, \h661e>>, <<\h3d3d, \h4613>>,
    <<\h39f2, \hea38>>, <<\h4747, \hca35>>, <<\h6fc1, \h1ef3>>, <<\h1174, \h3efe>>,
    <<\h3ecc, \hb77f>>, <<\h4079, \h9772>>, <<\h68ff, \h43b4>>, <<\h164a, \h63b9>>,
    <<\h378e, \h50b6>>, <<\h493b, \h70bb>>, <<\h61bd, \ha47d>>, <<\h1f08, \h8470>>,
    <<\h30b0, \h0df1>>, <<\h4e05, \h2dfc>>, <<\h6683, \hf93a>>, <<\h1836, \hd937>>,
    <<\h250b, \h9f24>>, <<\h5bbe, \hbf29>>, <<\h7338, \h6bef>>, <<\h0d8d, \h4be2>>,
    <<\h2235, \hc263>>, <<\h5c80, \he26e>>, <<\h7406, \h36a8>>, <<\h0ab3, \h16a5>>,
    <<\h2b77, \h25aa>>, <<\h55c2, \h05a7>>, <<\h7d44, \hd161>>, <<\h03f1, \hf16c>>,
    <<\h2c49, \h78ed>>, <<\h52fc, \h58e0>>, <<\h7a7a, \h8c26>>, <<\h04cf, \hac2b>>,
    <<\h73e5, \hd470>>, <<\h0d50, \hf47d>>, <<\h25d6, \h20bb>>, <<\h5b63, \h00b6>>,
    <<\h74db, \h8937>>, <<\h0a6e, \ha93a>>, <<\h22e8, \h7dfc>>, <<\h5c5d, \h5df1>>,
    <<\h7d99, \h6efe>>, <<\h032c, \h4ef3>>, <<\h2baa, \h9a35>>, <<\h551f, \hba38>>,
    <<\h7aa7, \h33b9>>, <<\h0412, \h13b4>>, <<\h2c94, \hc772>>, <<\h5221, \he77f>>,
    <<\h6f1c, \ha16c>>, <<\h11a9, \h8161>>, <<\h392f, \h55a7>>, <<\h479a, \h75aa>>,
    <<\h6822, \hfc2b>>, <<\h1697, \hdc26>>, <<\h3e11, \h08e0>>, <<\h40a4, \h28ed>>,
    <<\h6160, \h1be2>>, <<\h1fd5, \h3bef>>, <<\h3753, \hef29>>, <<\h49e6, \hcf24>>,
    <<\h665e, \h46a5>>, <<\h18eb, \h66a8>>, <<\h306d, \hb26e>>, <<\h4ed8, \h9263>>,
    <<\h4a17, \h3e48>>, <<\h34a2, \h1e45>>, <<\h1c24, \hca83>>, <<\h6291, \hea8e>>,
    <<\h4d29, \h630f>>, <<\h339c, \h4302>>, <<\h1b1a, \h97c4>>, <<\h65af, \hb7c9>>,
    <<\h446b, \h84c6>>, <<\h3ade, \ha4cb>>, <<\h1258, \h700d>>, <<\h6ced, \h5000>>,
    <<\h4355, \hd981>>, <<\h3de0, \hf98c>>, <<\h1566, \h2d4a>>, <<\h6bd3, \h0d47>>,
    <<\h56ee, \h4b54>>, <<\h285b, \h6b59>>, <<\h00dd, \hbf9f>>, <<\h7e68, \h9f92>>,
    <<\h51d0, \h1613>>, <<\h2f65, \h361e>>, <<\h07e3, \he2d8>>, <<\h7956, \hc2d5>>,
    <<\h5892, \hf1da>>, <<\h2627, \hd1d7>>, <<\h0ea1, \h0511>>, <<\h7014, \h251c>>,
    <<\h5fac, \hac9d>>, <<\h2119, \h8c90>>, <<\h099f, \h5856>>, <<\h772a, \h785b>>,
    <<\h4c92, \h1c31>>, <<\h3227, \h3c3c>>, <<\h1aa1, \he8fa>>, <<\h6414, \hc8f7>>,
    <<\h4bac, \h4176>>, <<\h3519, \h617b>>, <<\h1d9f, \hb5bd>>, <<\h632a, \h95b0>>,
    <<\h42ee, \ha6bf>>, <<\h3c5b, \h86b2>>, <<\h14dd, \h5274>>, <<\h6a68, \h7279>>,
    <<\h45d0, \hfbf8>>, <<\h3b65, \hdbf5>>, <<\h13e3, \h0f33>>, <<\h6d56, \h2f3e>>,
    <<\h506b, \h692d>>, <<\h2ede, \h4920>>, <<\h0658, \h9de6>>, <<\h78ed, \hbdeb>>,
    <<\h5755, \h346a>>, <<\h29e0, \h1467>>, <<\h0166, \hc0a1>>, <<\h7fd3, \he0ac>>,
    <<\h5e17, \hd3a3>>, <<\h20a2, \hf3ae>>, <<\h0824, \h2768>>, <<\h7691, \h0765>>,
    <<\h5929, \h8ee4>>, <<\h279c, \haee9>>, <<\h0f1a, \h7a2f>>, <<\h71af, \h5a22>>,
    <<\h7560, \hf609>>, <<\h0bd5, \hd604>>, <<\h2353, \h02c2>>, <<\h5de6, \h22cf>>,
    <<\h725e, \hab4e>>, <<\h0ceb, \h8b43>>, <<\h246d, \h5f85>>, <<\h5ad8, \h7f88>>,
    <<\h7b1c, \h4c87>>, <<\h05a9, \h6c8a>>, <<\h2d2f, \hb84c>>, <<\h539a, \h9841>>,
    <<\h7c22, \h11c0>>, <<\h0297, \h31cd>>, <<\h2a11, \he50b>>, <<\h54a4, \hc506>>,
    <<\h6999, \h8315>>, <<\h172c, \ha318>>, <<\h3faa, \h77de>>, <<\h411f, \h57d3>>,
    <<\h6ea7, \hde52>>, <<\h1012, \hfe5f>>, <<\h3894, \h2a99>>, <<\h4621, \h0a94>>,
    <<\h67e5, \h399b>>, <<\h1950, \h1996>>, <<\h31d6, \hcd50>>, <<\h4f63, \hed5d>>,
    <<\h60db, \h64dc>>, <<\h1e6e, \h44d1>>, <<\h36e8, \h9017>>, <<\h485d, \hb01a>>,
    <<\h3f77, \hc841>>, <<\h41c2, \he84c>>, <<\h6944, \h3c8a>>, <<\h17f1, \h1c87>>,
    <<\h3849, \h9506>>, <<\h46fc, \hb50b>>, <<\h6e7a, \h61cd>>, <<\h10cf, \h41c0>>,
    <<\h310b, \h72cf>>, <<\h4fbe, \h52c2>>, <<\h6738, \h8604>>, <<\h198d, \ha609>>,
    <<\h3635, \h2f88>>, <<\h4880, \h0f85>>, <<\h6006, \hdb43>>, <<\h1eb3, \hfb4e>>,
    <<\h238e, \hbd5d>>, <<\h5d3b, \h9d50>>, <<\h75bd, \h4996>>, <<\h0b08, \h699b>>,
    <<\h24b0, \he01a>>, <<\h5a05, \hc017>>, <<\h7283, \h14d1>>, <<\h0c36, \h34dc>>,
    <<\h2df2, \h07d3>>, <<\h5347, \h27de>>, <<\h7bc1, \hf318>>, <<\h0574, \hd315>>,
    <<\h2acc, \h5a94>>, <<\h5479, \h7a99>>, <<\h7cff, \hae5f>>, <<\h024a, \h8e52>>,
    <<\h0685, \h2279>>, <<\h7830, \h0274>>, <<\h50b6, \hd6b2>>, <<\h2e03, \hf6bf>>,
    <<\h01bb, \h7f3e>>, <<\h7f0e, \h5f33>>, <<\h5788, \h8bf5>>, <<\h293d, \habf8>>,
    <<\h08f9, \h98f7>>, <<\h764c, \hb8fa>>, <<\h5eca, \h6c3c>>, <<\h207f, \h4c31>>,
    <<\h0fc7, \hc5b0>>, <<\h7172, \he5bd>>, <<\h59f4, \h317b>>, <<\h2741, \h1176>>,
    <<\h1a7c, \h5765>>, <<\h64c9, \h7768>>, <<\h4c4f, \ha3ae>>, <<\h32fa, \h83a3>>,
    <<\h1d42, \h0a22>>, <<\h63f7, \h2a2f>>, <<\h4b71, \hfee9>>, <<\h35c4, \hdee4>>,
    <<\h1400, \hedeb>>, <<\h6ab5, \hcde6>>, <<\h4233, \h1920>>, <<\h3c86, \h392d>>,
    <<\h133e, \hb0ac>>, <<\h6d8b, \h90a1>>, <<\h450d, \h4467>>, <<\h3bb8, \h646a>>
  >>
(* ----------------------------------------------------------------------- *)
(* 32-bit unsigned arithmetic on <<high 16 bits, low 16 bits>>             *)
(* ----------------------------------------------------------------------- *)
\* XorNibble[a + 1][b + 1] is the exclusive or of the 4-bit values a and b.
XorNibble ==
  <<
    <<0, 1, 2, 3, 4, 5, 6, 7, 8, 9, 10, 11, 12, 13, 14, 15>>,
    <<1, 0, 3, 2, 5, 4, 7, 6, 9, 8, 11, 10, 13, 12, 15, 14>>,
    <<2, 3, 0, 1, 6, 7, 4, 5, 10, 11, 8, 9, 14, 15, 12, 13>>,
    <<3, 2, 1, 0, 7, 6, 5, 4, 11, 10, 9, 8, 15, 14, 13, 12>>,
    <<4, 5, 6, 7, 0, 1, 2, 3, 12, 13, 14, 15, 8, 9, 10, 11>>,
    <<5, 4, 7, 6, 1, 0, 3, 2, 13, 12, 15, 14, 9, 8, 11, 10>>,
    <<6, 7, 4, 5, 2, 3, 0, 1, 14, 15, 12, 13, 10, 11, 8, 9>>,
    <<7, 6, 5, 4, 3, 2, 1, 0, 15, 14, 13, 12, 11, 10, 9, 8>>,
    <<8, 9, 10, 11, 12, 13, 14, 15, 0, 1, 2, 3, 4, 5, 6, 7>>,
    <<9, 8, 11, 10, 13, 12, 15, 14, 1, 0, 3, 2, 5, 4, 7, 6>>,
    <<10, 11, 8, 9, 14, 15, 12, 13, 2, 3, 0, 1, 6, 7, 4, 5>>,
    <<11, 10, 9, 8, 15, 14, 13, 12, 3, 2, 1, 0, 7, 6, 5, 4>>,
    <<12, 13, 14, 15, 8, 9, 10, 11, 4, 5, 6, 7, 0, 1, 2, 3>>,
    <<13, 12, 15, 14, 9, 8, 11, 10, 5, 4, 7, 6, 1, 0, 3, 2>>,
    <<14, 15, 12, 13, 10, 11, 8, 9, 6, 7, 4, 5, 2, 3, 0, 1>>,
    <<15, 14, 13, 12, 11, 10, 9, 8, 7, 6, 5, 4, 3, 2, 1, 0>>
  >>

Xor8(a, b) ==
  XorNibble[(a % 16) + 1][(b % 16) + 1]
    + 16 * XorNibble[(a \div 16) + 1][(b \div 16) + 1]

Xor16(a, b) == Xor8(a % 256, b % 256) + 256 * Xor8(a \div 256, b \div 256)

\* a ^ b on unsigned int
Xor32(a, b) == <<Xor16(a[1], b[1]), Xor16(a[2], b[2])>>

\* (val << 8) | byte on unsigned int: the top 8 bits of val fall off
ShlOr8(val, byte) ==
  <<(val[1] % 256) * 256 + (val[2] \div 256), (val[2] % 256) * 256 + byte>>

\* val >> RABIN_SHIFT on unsigned int: bits 23..31, a value in 0..511
ShrRabin(val) == val[1] \div 128

\* val & mask for a mask of the form 2^k - 1 (a hash_mask)
AndMask(val, mask) ==
  IF mask < 65536 THEN val[2] % (mask + 1)
  ELSE (val[1] % ((mask + 1) \div 65536)) * 65536 + val[2]

\* ~0 as unsigned int
AllOnes == <<65535, 65535>>
Zero32 == <<0, 0>>

(* ----------------------------------------------------------------------- *)
(* Loops.  Iterate(loop, env, st, lo, hi) is the value of st after         *)
(*     for (k = lo; k < hi; k++) st = Body(loop, env, st, k);              *)
(* where loop names the loop, env holds what the loop only reads and st    *)
(* what it changes.  A loop that can end early keeps a stop flag in st.    *)
(* Iterate is defined after the loop bodies.                               *)
(* ----------------------------------------------------------------------- *)
RECURSIVE Iterate(_, _, _, _, _)

(* ----------------------------------------------------------------------- *)
(* The byte buffers the caller owns                                        *)
(* ----------------------------------------------------------------------- *)
\* block repeated n times
Rep(block, n) ==
  [i \in 1..(n * Len(block)) |-> block[((i - 1) % Len(block)) + 1]] \o <<>>

BlockA == <<65, 66, 67, 68, 69, 70, 71, 72, 73, 74, 75, 76, 77, 78, 79, 80>>
BlockB == <<97, 98, 99, 100, 101, 102, 103, 104, 105, 106, 107, 108, 109, 110, 111, 112>>

\* Every value of an unsigned char, and a sequence read backwards.
AllBytes == [i \in 1..256 |-> i - 1] \o <<>>
Reverse(bytes) == [i \in 1..Len(bytes) |-> bytes[Len(bytes) + 1 - i]] \o <<>>

\* Repetition counts of the periodic buffers.
TwinReps == 5
CrowdReps == 130
BigReps == 4100
JunkLen == 129
FullOps == 10
GrowLen == 8200

\* Bytes that occur in no source.
Junk(n) == [k \in 1..n |-> (k % 37) + 1] \o <<>>

\* 36 literal bytes holding BlockA and BlockB as two whole windows.
Literals == <<120>> \o BlockA \o BlockB \o <<121, 122, 123>>
InsertOp == <<36>> \o Literals

\* An insert of 127 literal bytes holding seven whole windows.
FullInsertOp ==
  <<127, 120>> \o Rep(BlockA \o BlockB, 3) \o BlockA \o Junk(14)

\* A buffer is named by its position in Buffers; position 0 is the null
\* pointer.
\*    1  a source of two windows
\*    2  a source whose windows repeat two fingerprints a few times
\*    3  a source with more than HASH_LIMIT windows per fingerprint
\*    4  a source of one long run, longer than a copy instruction can hold
\*    5  a delta: header, one copy, three inserts
\*    6  a delta: header, five inserts
\*    7  a delta that ends in a zero command byte
\*    8  a delta with a zero command byte before its insert
\*    9  a delta of three bytes with a zero command byte
\*   10  a target: buffer 1 with another first byte and a tail
\*   11  a target: a long run of unmatched bytes, the tail of buffer 1, all
\*       of buffer 1 and one more byte
\*   12  a target: pieces of buffers 1, 2 and 14
\*   13  the empty buffer
\*   14  a source of one window
\*   15  a target: buffer 4, then the window of buffer 14
\*   16  a delta: header, FullOps inserts of 127 bytes
\*   17  a target: buffer 2 without its first three bytes
\*   18  a source of one window and three more bytes
\*   19  a target: one more repetition than buffer 2 holds
\*   20  a target: a run of exactly the bytes one copy instruction holds
\*   21  a target: a run of two bytes more than one copy instruction holds
\*   22  a target: one byte, then buffer 14
\*   23  a source whose windows come in runs of three, two and one
\*   24  a delta: header, one copy, one insert too short to hold a window
\*   25  every byte value, ascending and then descending
\*   26  a target: unmatched bytes that fill the first output buffer
Buffers ==
  << <<120>> \o BlockA \o BlockB \o <<121, 122>>,
     <<119>> \o Rep(BlockA \o BlockB, TwinReps) \o <<118>>,
     <<71>> \o Rep(BlockA \o BlockB, CrowdReps) \o <<72>>,
     Rep(BlockA, BigReps) \o <<113>>,
     <<108, 145, 1, 35>> \o InsertOp \o InsertOp \o InsertOp,
     <<180, 1>> \o InsertOp \o InsertOp \o InsertOp \o InsertOp \o InsertOp,
     <<20, 20, 119>> \o BlockB \o <<1, 2, 3, 0>>,
     <<20, 0, 20, 119>> \o BlockB \o <<1, 2, 3>>,
     <<5, 0, 9>>,
     <<9>> \o BlockA \o BlockB \o <<121, 122, 9, 9, 9>>,
     Junk(JunkLen) \o BlockA \o BlockB \o <<121, 122>>
       \o <<120>> \o BlockA \o BlockB \o <<121, 122, 9>>,
     BlockB \o <<121, 122, 7>> \o Rep(BlockA \o BlockB, 2) \o <<118, 7, 7>>
       \o BlockA \o <<97, 98, 99>> \o BlockB \o <<8, 9, 7>>,
     <<>>,
     <<7>> \o BlockB \o <<8, 9, 10, 11>>,
     Rep(BlockA, BigReps) \o <<113>> \o BlockB \o <<8, 9, 10>>,
     <<246, 9>> \o Rep(FullInsertOp, FullOps),
     SubSeq(BlockA, 3, RABIN_WINDOW) \o BlockB
       \o Rep(BlockA \o BlockB, TwinReps - 1) \o <<118>>,
     <<7>> \o BlockB \o <<8, 9>>,
     <<9>> \o Rep(BlockA \o BlockB, TwinReps + 1) \o <<9>>,
     Rep(BlockA, 65536 \div RABIN_WINDOW) \o <<9>>,
     Rep(BlockA, 65536 \div RABIN_WINDOW) \o <<65, 66, 9>>,
     <<9, 7>> \o BlockB \o <<8, 9, 10, 11>>,
     <<9>> \o Rep(BlockA, 3) \o Rep(BlockB, 2) \o BlockA \o <<9>>,
     <<35, 145, 1, 16, RABIN_WINDOW + 3>> \o BlockA \o <<97, 98, 99>>,
     AllBytes \o Reverse(AllBytes),
     Junk(GrowLen) >>

\* What the caller passes as a source, as a delta to index and as a target;
\* the null pointer and the empty buffer are among them.
SourceBufs == {NULL, 1, 2, 3, 4, 13, 14}
DeltaBufs == {NULL, 5, 6, 7, 8, 9, 13, 16, 24}
TargetBufs == {NULL, 1, 4, 10, 11, 12, 13, 15}

(* ----------------------------------------------------------------------- *)
(* Fingerprints                                                            *)
(* ----------------------------------------------------------------------- *)
BufLen(b) == Len(Buffers[b])

\* The size the caller announces for buffer b; a null pointer comes with a
\* size that would hold one window.
NullSize == RABIN_WINDOW + 1
InfoSize(b) == IF b = NULL THEN NullSize ELSE BufLen(b)
Byte(b, k) == Buffers[b][k + 1]

\* val = ((val << 8) | byte) ^ T[val >> RABIN_SHIFT]
RabinStep(val, byte) == Xor32(ShlOr8(val, byte), T[ShrRabin(val) + 1])

\* The fingerprint the index builders store for the window that starts one
\* byte after offset data:
\*     for (i = 1; i <= RABIN_WINDOW; i++) val = ... data[i] ...
WindowStep(env, val, i) == RabinStep(val, Byte(env.b, env.data + i))

WindowVal(b, data) ==
  Iterate("window", [b |-> b, data |-> data], Zero32, 1, RABIN_WINDOW + 1)

(* ----------------------------------------------------------------------- *)
(* struct index_entry, struct delta_index                                  *)
(* ----------------------------------------------------------------------- *)
null_entry == [ptr |-> NULL, src |-> NULL, val |-> Zero32]

\* A struct delta_index pointer is the index record itself, whose field mem is
\* the address of its allocation; the null pointer is NoIndex.
NoIndex == [mem |-> NULL]

\* The slots of bucket i of index idx are idx.entries[s + 1] for
\* idx.hash[i + 1] <= s < idx.hash[i + 2].
BucketStart(idx, i) == idx.hash[i + 1]
Slot(idx, s) == idx.entries[s + 1]

(* ----------------------------------------------------------------------- *)
(* limit_hash_buckets                                                      *)
(* ----------------------------------------------------------------------- *)
\* The culling of one bucket whose list lst has count > HASH_LIMIT entries.
\* List cells are numbered 1..Len(lst) in list order, nxt[p] is cell p's
\* next pointer (NULL after the last cell); following a NULL pointer is a
\* fault.

\* The mutation of LimitInnerStep that goes round once more when acc has
\* reached 0.
LimitInnerStepOnZero(nxt, s, k) ==
  IF s.stop \/ s.fault THEN s
  ELSE IF s.entry = NULL THEN [s EXCEPT !.fault = TRUE]
  ELSE [entry |-> nxt[s.entry], acc |-> s.acc - HASH_LIMIT,
        stop |-> ~(s.acc - HASH_LIMIT >= 0), fault |-> FALSE]

\* One pass of  do { entry = entry->next; acc -= HASH_LIMIT; } while (acc > 0);
LimitInnerStep(nxt, s, k) ==
  IF s.stop \/ s.fault THEN s
  ELSE IF s.entry = NULL THEN [s EXCEPT !.fault = TRUE]
  ELSE [entry |-> nxt[s.entry], acc |-> s.acc - HASH_LIMIT,
        stop |-> ~(s.acc - HASH_LIMIT > 0), fault |-> FALSE]

\* The inner loop takes HASH_LIMIT off acc per pass until acc <= 0: at most
\* acc / HASH_LIMIT + 1 passes.
LimitInner(st, nxt) ==
  Iterate("limit_inner", nxt,
          [entry |-> st.entry, acc |-> st.acc, stop |-> FALSE,
           fault |-> FALSE], 0, (st.acc \div HASH_LIMIT) + 1)

\* One pass of the outer  do { ... } while (entry);
LimitOuter(count, st, k) ==
  IF st.stop \/ st.fault THEN st
  ELSE
    LET acc1 == st.acc + (count - HASH_LIMIT)
        keep == st.entry
        inner == IF acc1 > 0
                 THEN LimitInner([entry |-> st.entry, acc |-> acc1], st.nxt)
                 ELSE [entry |-> st.entry, acc |-> acc1, stop |-> TRUE,
                       fault |-> FALSE]
        \* keep->next = entry->next;
        unlinkFault == acc1 > 0 /\ (inner.fault \/ inner.entry = NULL)
        nxt1 == IF acc1 > 0 /\ ~unlinkFault
                THEN [st.nxt EXCEPT ![keep] = st.nxt[inner.entry]]
                ELSE st.nxt
    IN IF unlinkFault \/ inner.entry = NULL
       THEN [st EXCEPT !.fault = TRUE]
       ELSE \* entry = entry->next;
            [entry |-> nxt1[inner.entry], acc |-> inner.acc, nxt |-> nxt1,
             stop |-> nxt1[inner.entry] = NULL, fault |-> FALSE]

\* Reading the culled list back, head first.
LimitFollow(env, st, k) ==
  IF st.p = NULL THEN st
  ELSE [p |-> env.nxt[st.p], out |-> Append(st.out, env.lst[st.p])]

LimitBucket(lst, count) ==
  LET n == Len(lst)
      nxt0 == [p \in 1..n |-> IF p < n THEN p + 1 ELSE NULL]
      walked == Iterate("limit_outer", count,
                        [entry |-> IF n = 0 THEN NULL ELSE 1, acc |-> 0,
                         nxt |-> nxt0, stop |-> FALSE, fault |-> n = 0],
                        0, n + 1)
      kept == Iterate("limit_follow", [nxt |-> walked.nxt, lst |-> lst],
                      [p |-> IF n = 0 THEN NULL ELSE 1, out |-> <<>>], 0, n)
  IN [list |-> kept.out, fault |-> walked.fault]

\* One pass of  for (i = 0; i < hsize; i++)
LimitHash(hash_count, st, i) ==
  IF hash_count[i + 1] <= HASH_LIMIT THEN st
  ELSE LET res == LimitBucket(st.hash[i + 1], hash_count[i + 1])
       IN [hash |-> [st.hash EXCEPT ![i + 1] = res.list],
           entries |-> st.entries - (hash_count[i + 1] - HASH_LIMIT),
           fault |-> st.fault \/ res.fault]

\* limit_hash_buckets(hash, hash_count, hsize, entries): hash[i + 1] is the
\* list of bucket i, head first.  Returns the culled lists and the new total.
limit_hash_buckets(hash, hash_count, hsize, entries) ==
  Iterate("limit_hash", hash_count,
          [hash |-> hash, entries |-> entries, fault |-> FALSE], 0, hsize)

(* ----------------------------------------------------------------------- *)
(* pack_delta_index                                                        *)
(* ----------------------------------------------------------------------- *)
\* One step back of the walk over the empty slots at the end of a bucket
\* whose first slot is first.
WalkBack(env, st, k) ==
  IF st.stop THEN st
  ELSE IF st.p >= env.first /\ Slot(env.old, st.p).ptr = NULL
       THEN [st EXCEPT !.p = @ - 1]
       ELSE [st EXCEPT !.stop = TRUE]

\* "Find the last open spot" of bucket i of the old index:
\*     packed_entry = old_index->hash[i + 1]; --packed_entry;
\*     while (packed_entry >= old_index->hash[i] && packed_entry->ptr == NULL)
\*         --packed_entry;
\*     ++packed_entry;
LastOpenSpot(old, i) ==
  Iterate("walk_back", [old |-> old, first |-> BucketStart(old, i)],
          [p |-> BucketStart(old, i + 1) - 1, stop |-> FALSE],
          0, BucketStart(old, i + 1) - BucketStart(old, i) + 1).p + 1

\* The mutation of FitEntry that does not count the entry it moves into the
\* old index.
FitEntryUncounted(i, st, k) ==
  IF ~st.fit_in_old THEN st
  ELSE
    LET p == IF st.packed_entry = NoSlot
             THEN LastOpenSpot(st.old, i) ELSE st.packed_entry
    IN IF p >= BucketStart(st.old, i + 1) \/ Slot(st.old, p).ptr # NULL
       THEN [st EXCEPT !.fit_in_old = FALSE, !.packed_entry = p]
       ELSE [st EXCEPT
               !.old.entries[p + 1] = Head(st.hash[i + 1]),
               !.hash[i + 1] = Tail(@),
               !.copied_count = @ + 1,
               !.packed_entry = p + 1]

\* One pass of  for (entry = hash[i]; entry; entry = entry->next)  of the
\* squeeze into the old index.
FitEntry(i, st, k) ==
  IF ~st.fit_in_old THEN st
  ELSE
    LET p == IF st.packed_entry = NoSlot
             THEN LastOpenSpot(st.old, i) ELSE st.packed_entry
    IN IF p >= BucketStart(st.old, i + 1) \/ Slot(st.old, p).ptr # NULL
       THEN \* There are no free spots here
            [st EXCEPT !.fit_in_old = FALSE, !.packed_entry = p]
       ELSE [st EXCEPT
               !.old.entries[p + 1] = Head(st.hash[i + 1]),
               !.old.num_entries = @ + 1,
               !.hash[i + 1] = Tail(@),
               !.copied_count = @ + 1,
               !.packed_entry = p + 1]

\* One pass of  for (i = 0; i < hsize; ++i)  of the squeeze.
FitBucket(env, st, i) ==
  IF ~st.fit_in_old THEN st
  ELSE [Iterate("fit_entry", i, [st EXCEPT !.packed_entry = NoSlot], 0,
                Len(st.hash[i + 1]))
          EXCEPT !.packed_entry = NoSlot]

\* The mutation of CopyOldEntry that copies every entry of bucket j.
CopyOldEntryUnfiltered(env, st, s) ==
  IF st.stop THEN st
  ELSE IF Slot(env.old, s).ptr = NULL THEN [st EXCEPT !.stop = TRUE]
  ELSE [st EXCEPT !.out = Append(@, Slot(env.old, s))]

\* One slot of bucket j of the old index, copied when it belongs in bucket
\* i of a table with mask hmask; the copying stops at the first empty slot.
CopyOldEntry(env, st, s) ==
  IF st.stop THEN st
  ELSE IF Slot(env.old, s).ptr = NULL THEN [st EXCEPT !.stop = TRUE]
  ELSE IF AndMask(Slot(env.old, s).val, env.hmask) = env.i
       THEN [st EXCEPT !.out = Append(@, Slot(env.old, s))]
       ELSE st

\*     for (old_entry = old_index->hash[j];
\*          old_entry < old_index->hash[j + 1] && old_entry->ptr != NULL;
\*          old_entry++)
\*         if ((old_entry->val & hmask) == i) *packed_entry++ = *old_entry;
OldEntriesFor(old, j, hmask, i) ==
  Iterate("copy_old", [old |-> old, hmask |-> hmask, i |-> i],
          [out |-> <<>>, stop |-> FALSE],
          BucketStart(old, j), BucketStart(old, j + 1)).out

ExtraNulls == [j \in 1..EXTRA_NULLS |-> null_entry]

\* The mutation of PackBucket that writes the new entries of a bucket
\* before the old ones.
PackBucketNewFirst(env, st, i) ==
  [packed_hash |-> Append(st.packed_hash, Len(st.entries)),
   entries |-> st.entries \o env.hash[i + 1]
               \o (IF env.old.mem # NULL
                   THEN OldEntriesFor(env.old, i % (env.old.hash_mask + 1),
                                      env.hmask, i)
                   ELSE <<>>)
               \o ExtraNulls]

\* One pass of the loop that writes the packed index: the old entries of
\* the bucket, then the new ones, then the extra nulls.
PackBucket(env, st, i) ==
  LET olds == IF env.old.mem # NULL
              THEN OldEntriesFor(env.old, i % (env.old.hash_mask + 1),
                                 env.hmask, i)
              ELSE <<>>
  IN [packed_hash |-> Append(st.packed_hash, Len(st.entries)),
      entries |-> st.entries \o olds \o env.hash[i + 1] \o ExtraNulls]

\* "First, see if we can squeeze the new items into the existing
\* structure": the old index and the lists after the attempt.
SqueezeIntoOld(hash, hsize, old_index) ==
  IF old_index.mem # NULL /\ old_index.hash_mask = hsize - 1
  THEN Iterate("fit_bucket", NULL,
               [old |-> old_index, hash |-> hash, fit_in_old |-> TRUE,
                copied_count |-> 0, packed_entry |-> NoSlot], 0, hsize)
  ELSE [old |-> old_index, hash |-> hash, fit_in_old |-> FALSE,
        copied_count |-> 0, packed_entry |-> NoSlot]

\* The index allocated at newmem from the slots written by the packing
\* loop; counted tells whether the entry-count assertion holds.
PackedIndex(packed, tried, hsize, num_entries, newmem) ==
  [index |-> [mem |-> newmem,
              last_src |-> NULL,
              hash_mask |-> hsize - 1,
              num_entries |-> num_entries,
              hash |-> Append(packed.packed_hash, Len(packed.entries)),
              entries |-> packed.entries],
   old |-> tried.old,
   same |-> FALSE,
   counted |-> Len(packed.entries) = num_entries + hsize * EXTRA_NULLS,
   copied_count |-> tried.copied_count]

\* pack_delta_index after the squeeze.
PackAfterSqueeze(tried, hsize, num_entries, newmem) ==
  IF tried.old.mem # NULL /\ tried.fit_in_old
  THEN \* No need to allocate a new buffer, but return old_index ptr
       [index |-> tried.old, old |-> tried.old, same |-> TRUE,
        counted |-> TRUE, copied_count |-> tried.copied_count]
  ELSE PackedIndex(Iterate("pack_bucket",
                           [old |-> tried.old, hmask |-> hsize - 1,
                            hash |-> tried.hash],
                           [packed_hash |-> <<>>, entries |-> <<>>], 0, hsize),
                   tried, hsize, num_entries, newmem)

\* pack_delta_index(hash, hsize, num_entries, old_index).  old_index is
\* NoIndex or an index record; newmem is the address malloc returns.  The
\* result names the index returned (index), the old index as the call
\* leaves it (old), whether the old index itself was returned (same) and
\* whether the entry-count assertion held (counted).
pack_delta_index(hash, hsize, num_entries, old_index, newmem) ==
  PackAfterSqueeze(SqueezeIntoOld(hash, hsize, old_index), hsize, num_entries,
                   newmem)

(* ----------------------------------------------------------------------- *)
(* create_delta_index                                                      *)
(* ----------------------------------------------------------------------- *)
\* for (i = 4; (1u << i) < hsize && i < 31; i++);
RECURSIVE HashBits(_, _)
HashBits(i, hsize) ==
  IF i < 31 /\ 2^i < hsize THEN HashBits(i + 1, hsize) ELSE i

\* The mutation of IndexHashSize that does not look at the old index.
IndexHashSizeFromEntries(old, total_num_entries) ==
  2^HashBits(4, total_num_entries \div 4)

\* The bucket count create_delta_index chooses.
IndexHashSize(old, total_num_entries) ==
  LET hsize == 2^HashBits(4, total_num_entries \div 4)
  IN IF old.mem # NULL /\ old.hash_mask > hsize - 1
     THEN old.hash_mask + 1 ELSE hsize

\* The mutation of ScanWindow that leaves the entry of a run at the
\* highest window.
ScanWindowKeepHighest(st, src, b, data, hmask) ==
  LET val == WindowVal(b, data)
      i == AndMask(val, hmask)
  IN IF val = st.prev_val
     THEN [st EXCEPT !.num_entries = @ - 1,
                     !.total_num_entries = @ - 1]
     ELSE [st EXCEPT !.prev_val = val,
                     !.hash[i + 1] =
                        <<[ptr |-> data + RABIN_WINDOW, src |-> src,
                           val |-> val]>> \o @,
                     !.hash_count[i + 1] = @ + 1,
                     !.last = i]

\* One pass of the loop that populates the index for the new data, at
\* offset data of the buffer of source src.
ScanWindow(st, src, b, data, hmask) ==
  LET val == WindowVal(b, data)
      i == AndMask(val, hmask)
  IN IF val = st.prev_val
     THEN \* keep the lowest of consecutive identical blocks:
          \* entry[-1].entry.ptr = data + RABIN_WINDOW
          [st EXCEPT !.hash[st.last + 1][1].ptr = data + RABIN_WINDOW,
                     !.num_entries = @ - 1,
                     !.total_num_entries = @ - 1]
     ELSE [st EXCEPT !.prev_val = val,
                     !.hash[i + 1] =
                        <<[ptr |-> data + RABIN_WINDOW, src |-> src,
                           val |-> val]>> \o @,
                     !.hash_count[i + 1] = @ + 1,
                     !.last = i]

\* for (data = buffer + num_entries * stride - RABIN_WINDOW;
\*      data >= buffer; data -= stride)
ScanSource(env, st, k) ==
  ScanWindow(st, env.src, env.b, env.start - k * env.stride, env.hmask)

\* The number of windows to index and the distance between them.  With
\* fewer than RABIN_WINDOW bytes to index max_entries is 0 and the stride is
\* the quotient of a division by zero (divzero): the build traps there or
\* goes on with a quotient that is never used, since no window is scanned.
EntryBudget(size, max_bytes_to_index) ==
  LET all == (size - 1) \div RABIN_WINDOW
      max_entries == max_bytes_to_index \div RABIN_WINDOW
  IN IF max_bytes_to_index > 0 /\ all > max_entries
     THEN \* Limit the max number of matching entries
          [num_entries |-> max_entries,
           stride |-> IF max_entries = 0 THEN 0
                      ELSE (size - 1) \div max_entries,
           divzero |-> max_entries = 0]
     ELSE [num_entries |-> all, stride |-> RABIN_WINDOW, divzero |-> FALSE]

\* The unpacked hash create_delta_index builds for the new source.
PopulateIndex(src, b, budget, total_num_entries, hsize) ==
  Iterate("scan_source",
          [src |-> src, b |-> b,
           start |-> budget.num_entries * budget.stride - RABIN_WINDOW,
           stride |-> budget.stride, hmask |-> hsize - 1],
          [hash |-> [i \in 1..hsize |-> <<>>],
           hash_count |-> [i \in 1..hsize |-> 0],
           prev_val |-> AllOnes, last |-> 0,
           num_entries |-> budget.num_entries,
           total_num_entries |-> total_num_entries],
          0,
          IF budget.num_entries * budget.stride - RABIN_WINDOW < 0 THEN 0
          ELSE ((budget.num_entries * budget.stride - RABIN_WINDOW)
                  \div budget.stride) + 1)

\* The entries in the lists of a table.
ListEntries(lists) ==
  UNION {{lists[i][k] : k \in 1..Len(lists[i])} : i \in 1..Len(lists)}

\* The mutation of IndexPacked that sets last_src in a first build only.
IndexPackedFirstSource(src, packed, limited) ==
  [rc |-> "DELTA_OK",
   fresh |-> [packed.index EXCEPT
                !.last_src = IF packed.old.mem # NULL
                             THEN packed.old.last_src ELSE src],
   written |-> TRUE,
   old |-> packed.old,
   same |-> packed.same,
   counted |-> packed.counted,
   copied_count |-> packed.copied_count,
   fault |-> limited.fault,
   added |-> ListEntries(limited.hash)]

\* create_delta_index from the call of pack_delta_index on; added are the
\* entries handed to pack_delta_index.
IndexPacked(src, packed, limited) ==
  [rc |-> "DELTA_OK",
   fresh |-> [packed.index EXCEPT !.last_src = src],
   written |-> TRUE,
   old |-> packed.old,
   same |-> packed.same,
   counted |-> packed.counted,
   copied_count |-> packed.copied_count,
   fault |-> limited.fault,
   added |-> ListEntries(limited.hash)]

\* create_delta_index from the call of limit_hash_buckets on.
IndexLimited(src, limited, hsize, old, newmem) ==
  IndexPacked(src,
              pack_delta_index(limited.hash, hsize, limited.entries, old,
                               newmem),
              limited)

IndexScanned(src, scanned, hsize, old, newmem) ==
  IndexLimited(src,
               limit_hash_buckets(scanned.hash, scanned.hash_count, hsize,
                                  scanned.total_num_entries),
               hsize, old, newmem)

\* create_delta_index once the number of windows is known.
IndexSource(src, info, old, budget, total_num_entries, newmem) ==
  IndexScanned(src,
               PopulateIndex(src, info.buf, budget, total_num_entries,
                             IndexHashSize(old, total_num_entries)),
               IndexHashSize(old, total_num_entries), old, newmem)

\* The mutation of create_delta_index that takes a source without bytes as
\* a source with nothing to index.
create_delta_index_empty_ok(src, info, old, max_bytes_to_index, newmem) ==
  IF info.buf = NULL \/ info.size = 0
  THEN [rc |-> "DELTA_OK", fresh |-> old, written |-> TRUE, old |-> old,
        same |-> TRUE, counted |-> TRUE, copied_count |-> 0,
        fault |-> FALSE, added |-> {}]
  ELSE IndexSource(src, info, old,
                   EntryBudget(info.size, max_bytes_to_index),
                   EntryBudget(info.size, max_bytes_to_index).num_entries
                     + (IF old.mem # NULL THEN old.num_entries ELSE 0),
                   newmem)

\* create_delta_index(src, old, fresh, max_bytes_to_index), where src is the
\* pointer to (position of) the source_info record info.  The result holds
\* the return code and the index stored in *fresh; written tells whether
\* *fresh was stored.
create_delta_index(src, info, old, max_bytes_to_index, newmem) ==
  IF info.buf = NULL \/ info.size = 0
  THEN [rc |-> "DELTA_SOURCE_EMPTY", fresh |-> NoIndex, written |-> FALSE,
        old |-> old, same |-> FALSE, counted |-> TRUE, copied_count |-> 0,
        fault |-> FALSE, added |-> {}]
  ELSE IndexSource(src, info, old,
                   EntryBudget(info.size, max_bytes_to_index),
                   EntryBudget(info.size, max_bytes_to_index).num_entries
                     + (IF old.mem # NULL THEN old.num_entries ELSE 0),
                   newmem)

(* ----------------------------------------------------------------------- *)
(* create_index_from_old_and_new_entries                                   *)
(* ----------------------------------------------------------------------- *)
\* One pass of  for (entry = entries + num_entries - 1; entry >= entries;
\* --entry): the entry is pushed on the front of the list of its bucket.
PutEntry(env, hash, k) ==
  LET entry == env.entries[env.num_entries - k]
  IN [hash EXCEPT ![AndMask(entry.val, env.hsize - 1) + 1] = <<entry>> \o @]

\* _put_entries_into_hash(entries, num_entries, hsize)
put_entries_into_hash(entries, num_entries, hsize) ==
  Iterate("put_entry",
          [entries |-> entries, num_entries |-> num_entries, hsize |-> hsize],
          [i \in 1..hsize |-> <<>>], 0, num_entries)

\* The mutation of MergedHashSize that lets the bucket count follow the
\* entry count alone.
HashSizeFromEntries(old_index, total_num_entries) ==
  2^HashBits(4, total_num_entries \div 4)

\* The bucket count create_index_from_old_and_new_entries chooses.
MergedHashSize(old_index, total_num_entries) ==
  LET hsize == 2^HashBits(4, total_num_entries \div 4)
  IN IF hsize < old_index.hash_mask THEN old_index.hash_mask + 1 ELSE hsize

\* The index allocated at newmem from the slots written by the packing loop.
MergedIndex(packed, old_index, hsize, total_num_entries, newmem) ==
  [index |-> [mem |-> newmem,
              last_src |-> old_index.last_src,
              hash_mask |-> hsize - 1,
              num_entries |-> total_num_entries,
              hash |-> Append(packed.packed_hash, Len(packed.entries)),
              entries |-> packed.entries],
   counted |-> Len(packed.entries) = total_num_entries + hsize * EXTRA_NULLS]

\* create_index_from_old_and_new_entries once the bucket count is chosen.
MergeEntries(old_index, entries, num_entries, hsize, newmem) ==
  MergedIndex(Iterate("pack_bucket",
                      [old |-> old_index, hmask |-> hsize - 1,
                       hash |-> put_entries_into_hash(entries, num_entries,
                                                      hsize)],
                      [packed_hash |-> <<>>, entries |-> <<>>], 0, hsize),
              old_index, hsize, num_entries + old_index.num_entries, newmem)

create_index_from_old_and_new_entries(old_index, entries, num_entries, newmem) ==
  MergeEntries(old_index, entries, num_entries,
               MergedHashSize(old_index, num_entries + old_index.num_entries),
               newmem)

(* ----------------------------------------------------------------------- *)
(* create_delta_index_from_delta                                           *)
(* ----------------------------------------------------------------------- *)
\* One pass of  do { cmd = *data++; ... } while (cmd & 0x80 && data < top);
HeaderByte(env, st, k) ==
  IF st.stop THEN st
  ELSE [data |-> st.data + 1,
        stop |-> ~(Byte(env.b, st.data) >= 128 /\ st.data + 1 < env.top)]

\* get_delta_hdr_size moves the data pointer past the size header.
get_delta_hdr_size(b, top) ==
  Iterate("header_byte", [b |-> b, top |-> top],
          [data |-> 0, stop |-> FALSE], 0, top).data

\* The number of operand bytes a copy command byte announces (bits 0..6).
CopyOperands(cmd) ==
  (cmd % 2) + ((cmd \div 2) % 2) + ((cmd \div 4) % 2) + ((cmd \div 8) % 2)
    + ((cmd \div 16) % 2) + ((cmd \div 32) % 2) + ((cmd \div 64) % 2)

\* The mutation of InsertWindow whose entry points two bytes before the
\* end of its window.
InsertWindowEarly(env, st, k) ==
  IF st.full \/ ~(st.cmd > RABIN_WINDOW + 3) THEN st
  ELSE
    LET val == WindowVal(env.b, st.data)
    IN IF val # st.prev_val
       THEN LET added ==
                  [st EXCEPT
                     !.prev_val = val,
                     !.num_entries = @ + 1,
                     !.entries =
                        Append(@, [ptr |-> st.data + RABIN_WINDOW - 2,
                                   src |-> env.src, val |-> val])]
            IN IF added.num_entries > env.max_num_entries
               THEN [added EXCEPT !.full = TRUE]
               ELSE [added EXCEPT !.cmd = @ - RABIN_WINDOW,
                                  !.data = @ + RABIN_WINDOW]
       ELSE [st EXCEPT !.cmd = @ - RABIN_WINDOW,
                       !.data = @ + RABIN_WINDOW]

\* One pass of
\*     for (; cmd > RABIN_WINDOW + 3; cmd -= RABIN_WINDOW, data += RABIN_WINDOW)
\* st.full is set by the break taken when the entries array has overflowed.
InsertWindow(env, st, k) ==
  IF st.full \/ ~(st.cmd > RABIN_WINDOW + 3) THEN st
  ELSE
    LET val == WindowVal(env.b, st.data)
    IN IF val # st.prev_val
       THEN LET added ==
                  [st EXCEPT
                     !.prev_val = val,
                     !.num_entries = @ + 1,
                     !.entries =
                        Append(@, [ptr |-> st.data + RABIN_WINDOW,
                                   src |-> env.src, val |-> val])]
            IN IF added.num_entries > env.max_num_entries
               THEN [added EXCEPT !.full = TRUE]
               ELSE [added EXCEPT !.cmd = @ - RABIN_WINDOW,
                                  !.data = @ + RABIN_WINDOW]
       ELSE [st EXCEPT !.cmd = @ - RABIN_WINDOW,
                       !.data = @ + RABIN_WINDOW]

\* One pass of the loop  while (data < top) { cmd = *data++; ... }
ParseOp(env, st, k) ==
  IF st.stop \/ ~(st.data < env.top) THEN st
  ELSE
    LET cmd == Byte(env.b, st.data)
        data == st.data + 1
    IN IF cmd >= 128
       THEN \* Copy instruction, skip it
            [st EXCEPT !.data = data + CopyOperands(cmd)]
       ELSE IF cmd # 0
       THEN IF data + cmd > env.top
            THEN \* Invalid insert, not enough bytes in the delta
                 [st EXCEPT !.data = data, !.stop = TRUE]
            ELSE LET w == Iterate("insert_window", env,
                                  [st EXCEPT !.data = data, !.cmd = cmd,
                                             !.full = FALSE],
                                  0, (cmd \div RABIN_WINDOW) + 1)
                 IN \* Move the data pointer by whatever remainder is left
                    [w EXCEPT !.data = @ + w.cmd]
       ELSE \* cmd == 0 is reserved
            [st EXCEPT !.data = data, !.stop = TRUE]

\* One step back of
\*     while (cur_entry->ptr == NULL && cur_entry >= bucket_first_entry)
\*         cur_entry--;
\* The slot is read before it is compared with the start of the bucket; for
\* the first bucket the slot read last lies before the entries array, and
\* whatever is read there the second test ends the walk.
HoleBack(env, st, k) ==
  IF st.stop THEN st
  ELSE IF (st.p < 0 \/ Slot(env.old, st.p).ptr = NULL) /\ st.p >= env.first
       THEN [st EXCEPT !.p = @ - 1]
       ELSE [st EXCEPT !.stop = TRUE]

\* "See if we can fill in these values into the holes in the array": the
\* slot the entry goes into, or NoSlot when its bucket has no room.
FindHole(old, hash_offset) ==
  LET next_bucket_entry == BucketStart(old, hash_offset + 1)
      bucket_first_entry == BucketStart(old, hash_offset)
      cur_entry ==
        Iterate("hole_back", [old |-> old, first |-> bucket_first_entry],
                [p |-> next_bucket_entry - 1, stop |-> FALSE], 0,
                next_bucket_entry - bucket_first_entry + 1).p + 1
  IN IF cur_entry >= next_bucket_entry \/ Slot(old, cur_entry).ptr # NULL
     THEN NoSlot ELSE cur_entry

\* The mutation of FillHole that does not count the entry it puts into a
\* hole.
FillHoleUncounted(entries, st, k) ==
  IF st.stop THEN st
  ELSE
    LET entry == entries[k + 1]
        hole == FindHole(st.old, AndMask(entry.val, st.old.hash_mask))
    IN IF hole = NoSlot
       THEN [st EXCEPT !.stop = TRUE]
       ELSE [st EXCEPT !.num_inserted = @ + 1,
                       !.old.entries[hole + 1] = entry]

\* One pass of  for (; num_entries > 0; --num_entries, ++entry) { ... }
FillHole(entries, st, k) ==
  IF st.stop THEN st
  ELSE
    LET entry == entries[k + 1]
        hole == FindHole(st.old, AndMask(entry.val, st.old.hash_mask))
    IN IF hole = NoSlot
       THEN \* There is no room for this entry, we have to resize
            [st EXCEPT !.stop = TRUE]
       ELSE [st EXCEPT !.num_inserted = @ + 1,
                       !.old.entries[hole + 1] = entry,
                       !.old.num_entries = @ + 1]

\* The parse loop of create_delta_index_from_delta.
ParseDelta(src, info) ==
  Iterate("parse_op",
          [src |-> src, b |-> info.buf, top |-> info.size,
           max_num_entries |-> (info.size - 1) \div RABIN_WINDOW],
          [data |-> get_delta_hdr_size(info.buf, info.size),
           prev_val |-> AllOnes, entries |-> <<>>,
           num_entries |-> 0, cmd |-> 0, full |-> FALSE,
           stop |-> FALSE], 0, info.size)

\* The entries the parse loop has collected.
ParsedEntries(parsed) ==
  {parsed.entries[k] : k \in 1..parsed.num_entries}

\* create_delta_index_from_delta when entries are left after the holes of
\* the old index were filled.
DeltaIndexResized(parsed, made, filled, overflow) ==
  [rc |-> "DELTA_OK", fresh |-> made.index, written |-> TRUE,
   old |-> filled.old, same |-> FALSE, counted |-> made.counted,
   num_inserted |-> filled.num_inserted, overflow |-> overflow,
   added |-> ParsedEntries(parsed)]

\* create_delta_index_from_delta after the fill loop.
DeltaIndexFilled(parsed, filled, overflow, newmem) ==
  IF parsed.num_entries - filled.num_inserted > 0
  THEN \* We couldn't fit the new entries into the old index
       DeltaIndexResized(
         parsed,
         create_index_from_old_and_new_entries(
           filled.old,
           SubSeq(parsed.entries, filled.num_inserted + 1, parsed.num_entries),
           parsed.num_entries - filled.num_inserted, newmem),
         filled, overflow)
  ELSE [rc |-> "DELTA_OK", fresh |-> filled.old, written |-> TRUE,
        old |-> filled.old, same |-> TRUE, counted |-> TRUE,
        num_inserted |-> filled.num_inserted, overflow |-> overflow,
   added |-> ParsedEntries(parsed)]

\* The mutation of DeltaIndexParsed that sets last_src before it looks at
\* the number of entries.
DeltaIndexParsedMarked(src, info, old_index, parsed, newmem) ==
  IF parsed.data # info.size
  THEN \* The source_info data passed was corrupted or otherwise invalid
       [rc |-> "DELTA_SOURCE_BAD", fresh |-> NoIndex, written |-> FALSE,
        old |-> old_index, same |-> FALSE, counted |-> TRUE,
        num_inserted |-> 0, added |-> {}, overflow |->
          parsed.num_entries > (info.size - 1) \div RABIN_WINDOW]
  ELSE IF parsed.num_entries = 0
  THEN \* Nothing to index
       [rc |-> "DELTA_OK", fresh |-> [old_index EXCEPT !.last_src = src],
        written |-> TRUE,
        old |-> [old_index EXCEPT !.last_src = src], same |-> TRUE,
        counted |-> TRUE,
        num_inserted |-> 0, overflow |-> FALSE, added |-> {}]
  ELSE DeltaIndexFilled(
         parsed,
         Iterate("fill_hole", parsed.entries,
                 [old |-> [old_index EXCEPT !.last_src = src],
                  num_inserted |-> 0, stop |-> FALSE],
                 0, Len(parsed.entries)),
         parsed.num_entries > (info.size - 1) \div RABIN_WINDOW,
         newmem)

\* create_delta_index_from_delta after the parse loop.
DeltaIndexParsed(src, info, old_index, parsed, newmem) ==
  IF parsed.data # info.size
  THEN \* The source_info data passed was corrupted or otherwise invalid
       [rc |-> "DELTA_SOURCE_BAD", fresh |-> NoIndex, written |-> FALSE,
        old |-> old_index, same |-> FALSE, counted |-> TRUE,
        num_inserted |-> 0, added |-> {}, overflow |->
          parsed.num_entries > (info.size - 1) \div RABIN_WINDOW]
  ELSE IF parsed.num_entries = 0
  THEN \* Nothing to index
       [rc |-> "DELTA_OK", fresh |-> old_index, written |-> TRUE,
        old |-> old_index, same |-> TRUE, counted |-> TRUE,
        num_inserted |-> 0, overflow |-> FALSE, added |-> {}]
  ELSE DeltaIndexFilled(
         parsed,
         Iterate("fill_hole", parsed.entries,
                 [old |-> [old_index EXCEPT !.last_src = src],
                  num_inserted |-> 0, stop |-> FALSE],
                 0, Len(parsed.entries)),
         parsed.num_entries > (info.size - 1) \div RABIN_WINDOW,
         newmem)

\* create_delta_index_from_delta(src, old_index, fresh), where src is the
\* pointer to (position of) the source_info record info.  old is the old
\* index as the call leaves it; written tells whether *fresh was stored.
create_delta_index_from_delta(src, info, old_index, newmem) ==
  IF old_index.mem = NULL
  THEN [rc |-> "DELTA_INDEX_NEEDED", fresh |-> NoIndex, written |-> FALSE,
        old |-> old_index, same |-> FALSE, counted |-> TRUE,
        num_inserted |-> 0, overflow |-> FALSE, added |-> {}]
  ELSE IF info.buf = NULL \/ info.size = 0
  THEN [rc |-> "DELTA_SOURCE_EMPTY", fresh |-> NoIndex, written |-> FALSE,
        old |-> old_index, same |-> FALSE, counted |-> TRUE,
        num_inserted |-> 0, overflow |-> FALSE, added |-> {}]
  ELSE IF (info.size - 1) \div RABIN_WINDOW = 0
  THEN [rc |-> "DELTA_OK", fresh |-> old_index, written |-> TRUE,
        old |-> old_index, same |-> TRUE, counted |-> TRUE,
        num_inserted |-> 0, overflow |-> FALSE, added |-> {}]
  ELSE DeltaIndexParsed(src, info, old_index, ParseDelta(src, info), newmem)

(* ----------------------------------------------------------------------- *)
(* Mutations: operators that differ from the code in one place            *)
(* ----------------------------------------------------------------------- *)
\* The mutation of GlobalOffset that forgets the source's agg_offset.
LocalOffset(moff, msource) == moff

\* The mutation of TooShort that accepts a match of three bytes.
TooShortBelowThree(msize) == msize < 3

\* The mutation of FullInsert that closes a run one byte late.
FullInsertLate(inscnt) == inscnt = 128

\* The mutation of CopyOp that always writes the four offset bytes.
CopyOpAllOffsetBytes(moff, msize) ==
  <<128 + 15 + (IF msize % 256 # 0 THEN 16 ELSE 0)
        + (IF (msize \div 256) % 256 # 0 THEN 32 ELSE 0),
    moff % 256, (moff \div 256) % 256, (moff \div 65536) % 256,
    (moff \div 16777216) % 256>>
  \o (IF msize % 256 # 0 THEN <<msize % 256>> ELSE <<>>)
  \o (IF (msize \div 256) % 256 # 0 THEN <<(msize \div 256) % 256>> ELSE <<>>)

\* The mutation of StoreSize that keeps only the low seven bits.
StoreSizeOneByte(out, i) == Append(out, i % 128)

(* ----------------------------------------------------------------------- *)
(* create_delta                                                            *)
(* ----------------------------------------------------------------------- *)
\* No copy instruction was emitted in a pass.
NoEmit == [msize |-> 0]

\* out[pos] = byte.  The output buffer is the sequence of the bytes written
\* so far; a slot that was skipped and not yet written holds Uninit.
Put(out, pos, byte) ==
  IF pos < Len(out) THEN [out EXCEPT ![pos + 1] = byte]
  ELSE out \o [k \in 1..(pos - Len(out)) |-> Uninit] \o <<byte>>

\* The size header:
\*     i = trg_size;
\*     while (i >= 0x80) { out[outpos++] = i | 0x80; i >>= 7; }
\*     out[outpos++] = i;
RECURSIVE StoreSize(_, _)
StoreSize(out, i) ==
  IF i >= 128 THEN StoreSize(Append(out, (i % 128) + 128), i \div 128)
  ELSE Append(out, i)

\* while (ref_size-- && *src++ == *ref) ref++;   the result is ref - entry->ptr
MatchLength(refbuf, ref, trg, src, ref_size) ==
  CHOOSE n \in 0..ref_size :
    /\ n = ref_size \/ Byte(refbuf, ref + n) # Byte(trg, src + n)
    /\ \A k \in 0..(n - 1) : Byte(refbuf, ref + k) = Byte(trg, src + k)

\* One candidate of the probed bucket.  m is the best match so far.
ProbeEntry(m, entry, val, trg, data, top) ==
  IF entry.val # val THEN m
  ELSE
    LET ref_top == srcs[entry.src].size
        avail == ref_top - entry.ptr
        ref_size == IF avail > top - data THEN top - data ELSE avail
    IN IF ref_size <= m.msize THEN [m EXCEPT !.stop = TRUE]
       ELSE LET n == MatchLength(srcs[entry.src].buf, entry.ptr, trg, data,
                                 ref_size)
            IN IF m.msize < n
               THEN \* this is our best match so far
                    [msize |-> n, msource |-> entry.src, moff |-> entry.ptr,
                     stop |-> n >= 4096]
               ELSE m

\* One pass of
\*     for (entry = index->hash[i];
\*          entry < index->hash[i+1] && entry->src != NULL; entry++)
ProbeSlot(env, m, s) ==
  IF m.stop THEN m
  ELSE IF Slot(env.idx, s).src = NULL THEN [m EXCEPT !.stop = TRUE]
  ELSE ProbeEntry(m, Slot(env.idx, s), env.val, env.trg, env.data, env.top)

ProbeBucket(m0, idx, i, val, trg, data, top) ==
  Iterate("probe_slot",
          [idx |-> idx, val |-> val, trg |-> trg, data |-> data, top |-> top],
          [m0 EXCEPT !.stop = FALSE], BucketStart(idx, i),
          BucketStart(idx, i + 1))

\* The window takes the next byte in and keeps the byte that leaves it.
SlideWindowKeep(val, trg, data) == RabinStep(val, Byte(trg, data))

\* Shift the window by one byte:
\*     val ^= U[data[-RABIN_WINDOW]];
\*     val = ((val << 8) | *data) ^ T[val >> RABIN_SHIFT];
SlideWindow(val, trg, data) ==
  RabinStep(Xor32(val, U[Byte(trg, data - RABIN_WINDOW) + 1]), Byte(trg, data))

\* for (j = -RABIN_WINDOW; j < 0; j++)
\*     val = ((val << 8) | data[j]) ^ T[val >> RABIN_SHIFT];
WindowBefore(trg, data) ==
  Iterate("window", [b |-> trg, data |-> data - RABIN_WINDOW - 1], Zero32,
          1, RABIN_WINDOW + 1)

\* The mutation of StealByte that keeps the count slot of a run it has
\* emptied.
StealByteKeepSlot(env, st, k) ==
  IF st.stop THEN st
  ELSE IF st.moff # 0
          /\ Byte(env.ref_data, st.moff - 1) = Byte(env.trg, st.data - 1)
  THEN LET one == [st EXCEPT !.msize = @ + 1, !.moff = @ - 1,
                             !.data = @ - 1, !.outpos = @ - 1,
                             !.inscnt = @ - 1]
       IN IF one.inscnt # 0 THEN one
          ELSE [one EXCEPT !.inscnt = -1, !.stop = TRUE]
  ELSE [st EXCEPT !.stop = TRUE]

\* One pass of the steal-back loop:
\*     while (moff && ref_data[moff-1] == data[-1]) {
\*         msize++; moff--; data--; outpos--;
\*         if (--inscnt) continue;
\*         outpos--; inscnt--; break;
\*     }
StealByte(env, st, k) ==
  IF st.stop THEN st
  ELSE IF st.moff # 0
          /\ Byte(env.ref_data, st.moff - 1) = Byte(env.trg, st.data - 1)
  THEN LET one == [st EXCEPT !.msize = @ + 1, !.moff = @ - 1,
                             !.data = @ - 1, !.outpos = @ - 1,
                             !.inscnt = @ - 1]
       IN IF one.inscnt # 0 THEN one
          ELSE \* remove count slot, make it -1
               [one EXCEPT !.outpos = @ - 1, !.inscnt = -1, !.stop = TRUE]
  ELSE [st EXCEPT !.stop = TRUE]

\* The mutation of StealBack that leaves the pending literals alone.
StealBackNone(f, trg) ==
  [msize |-> f.msize, moff |-> f.moff, data |-> f.data, outpos |-> f.outpos,
   inscnt |-> f.inscnt, stop |-> TRUE]

\* The steal-back loop of the copy branch, entered with pending literals.
StealBack(f, trg) ==
  Iterate("steal_byte", [ref_data |-> srcs[f.msource].buf, trg |-> trg],
          [msize |-> f.msize, moff |-> f.moff, data |-> f.data,
           outpos |-> f.outpos, inscnt |-> f.inscnt, stop |-> FALSE],
          0, f.inscnt + 1)

\* The bytes of a copy instruction for global offset moff and length msize
\* (msize <= 0x10000): the command byte, then the non-zero bytes of the
\* offset and of the length, low byte first.
CopyOp(moff, msize) ==
  LET o0 == moff % 256
      o1 == (moff \div 256) % 256
      o2 == (moff \div 65536) % 256
      o3 == (moff \div 16777216) % 256
      s0 == msize % 256
      s1 == (msize \div 256) % 256
      i == 128 + (IF o0 # 0 THEN 1 ELSE 0) + (IF o1 # 0 THEN 2 ELSE 0)
               + (IF o2 # 0 THEN 4 ELSE 0) + (IF o3 # 0 THEN 8 ELSE 0)
               + (IF s0 # 0 THEN 16 ELSE 0) + (IF s1 # 0 THEN 32 ELSE 0)
  IN <<i>> \o (IF o0 # 0 THEN <<o0>> ELSE <<>>)
          \o (IF o1 # 0 THEN <<o1>> ELSE <<>>)
          \o (IF o2 # 0 THEN <<o2>> ELSE <<>>)
          \o (IF o3 # 0 THEN <<o3>> ELSE <<>>)
          \o (IF s0 # 0 THEN <<s0>> ELSE <<>>)
          \o (IF s1 # 0 THEN <<s1>> ELSE <<>>)

\* out[pos], out[pos + 1], ... = bytes
RECURSIVE PutAll(_, _, _)
PutAll(out, pos, bytes) ==
  IF bytes = <<>> THEN out
  ELSE PutAll(Put(out, pos, Head(bytes)), pos + 1, Tail(bytes))

\* One pass of
\*     for (i = 0; i < RABIN_WINDOW && data < top; i++, data++) {
\*         out[outpos++] = *data;
\*         val = ((val << 8) | *data) ^ T[val >> RABIN_SHIFT];
\*     }
FirstInsert(trg, st, k) ==
  [out |-> Append(st.out, Byte(trg, k)),
   val |-> RabinStep(st.val, Byte(trg, k))]

\* The frame of create_delta when it reaches its scan loop: the header and
\* the first insert (first) of n bytes are in the output buffer.
FirstFrame(trg, trg_size, max_size, n, first) ==
  [trg |-> trg, top |-> trg_size, max_size |-> max_size,
   out |-> first.out, outpos |-> Len(first.out),
   outsize |-> IF max_size # 0 /\ 8192 >= max_size
               THEN max_size + MAX_OP_SIZE + 1 ELSE 8192,
   data |-> n, val |-> first.val, inscnt |-> n,
   moff |-> 0, msize |-> 0, msource |-> NULL,
   broke |-> FALSE, asserted |-> TRUE, passes |-> 0]

FirstBytes(trg_size) ==
  IF trg_size < RABIN_WINDOW THEN trg_size ELSE RABIN_WINDOW

EncoderStart(trg, trg_size, max_size) ==
  FirstFrame(trg, trg_size, max_size, FirstBytes(trg_size),
             Iterate("first_insert", trg,
                     [out |-> Append(StoreSize(<<>>, trg_size), Uninit),
                      val |-> Zero32],
                     0, FirstBytes(trg_size)))

\* if (inscnt == 0x7f)
FullInsert(inscnt) == inscnt = 127

\* The mutation of InsertByte that leaves the target position where it
\* is.
InsertByteStay(f) ==
  LET outpos0 == IF f.inscnt = 0 THEN f.outpos + 1 ELSE f.outpos
      out1 == Put(f.out, outpos0, Byte(f.trg, f.data))
      inscnt1 == f.inscnt + 1
  IN IF FullInsert(inscnt1)
     THEN [f EXCEPT !.out = Put(out1, (outpos0 + 1) - inscnt1 - 1, inscnt1),
                    !.outpos = outpos0 + 1, !.inscnt = 0, !.msize = 0]
     ELSE [f EXCEPT !.out = out1, !.outpos = outpos0 + 1,
                    !.inscnt = inscnt1, !.msize = 0]

\* The insert branch: the best match is less than 4 bytes long.
InsertByte(f) ==
  LET outpos0 == IF f.inscnt = 0 THEN f.outpos + 1 ELSE f.outpos
      out1 == Put(f.out, outpos0, Byte(f.trg, f.data))
      inscnt1 == f.inscnt + 1
  IN IF FullInsert(inscnt1)
     THEN \* a max length insert instruction, finalize it in the output
          [f EXCEPT !.out = Put(out1, (outpos0 + 1) - inscnt1 - 1, inscnt1),
                    !.outpos = outpos0 + 1, !.data = @ + 1,
                    !.inscnt = 0, !.msize = 0]
     ELSE [f EXCEPT !.out = out1, !.outpos = outpos0 + 1, !.data = @ + 1,
                    !.inscnt = inscnt1, !.msize = 0]

\* moff += msource->agg_offset;  (no 32-bit wrap: the sum is at most
\* MaxAggSize)
GlobalOffset(moff, msource) == moff + msource.agg_offset

\* The mutation of LeftOver that carries nothing over.
LeftOverNone(msize) == 0

\* A copy op is currently limited to 64KB:
\*     left = (msize < 0x10000 ? 0 : (msize - 0x10000));
LeftOver(msize) == IF msize < 65536 THEN 0 ELSE msize - 65536

\* The copy branch after the steal-back loop.  The result also carries the
\* instruction it emitted (emit): the global offset, the length and the
\* output position.
EmitCopy(f, idx, stolen) ==
  LET \* out[outpos - inscnt - 1] = inscnt;
      out1 == IF f.inscnt # 0
              THEN Put(f.out, stolen.outpos - stolen.inscnt - 1,
                       stolen.inscnt % 256)
              ELSE f.out
      left == LeftOver(stolen.msize)
      msize == stolen.msize - left
      src == srcs[f.msource]
      global == GlobalOffset(stolen.moff, src)
      last == srcs[idx.last_src]
      op == CopyOp(global, msize)
      data1 == stolen.data + msize
  IN [frame |->
        [f EXCEPT !.out = PutAll(out1, stolen.outpos, op),
                  !.outpos = stolen.outpos + Len(op),
                  !.inscnt = 0,
                  !.data = data1,
                  !.moff = stolen.moff + msize,
                  !.msize = left,
                  !.val = IF left < 4096 THEN WindowBefore(f.trg, data1)
                          ELSE f.val,
                  !.asserted = /\ f.asserted
                               /\ stolen.moff < src.size
                               /\ global + msize <= last.size + last.agg_offset],
      emit |-> [moff |-> global, msize |-> msize, at |-> stolen.outpos,
                source |-> f.msource, local |-> stolen.moff,
                stolen |-> f.data - stolen.data, pending |-> f.inscnt]]

\* The copy branch.
CopyMatch(f, idx) ==
  EmitCopy(f, idx,
           IF f.inscnt # 0 THEN StealBack(f, f.trg)
           ELSE [msize |-> f.msize, moff |-> f.moff, data |-> f.data,
                 outpos |-> f.outpos, inscnt |-> 0, stop |-> TRUE])

\* The mutation of GrowOutput that does not leave the loop when the output
\* has passed max_size.
GrowOutputNoBreak(f) ==
  IF f.outpos >= f.outsize - MAX_OP_SIZE
  THEN LET grown == (f.outsize * 3) \div 2
       IN [f EXCEPT !.outsize = IF f.max_size # 0 /\ grown >= f.max_size
                                 THEN f.max_size + MAX_OP_SIZE + 1 ELSE grown]
  ELSE f

\* The mutation of GrowOutput that waits until the buffer is full.
GrowOutputLate(f) ==
  IF f.outpos >= f.outsize
  THEN LET grown == (f.outsize * 3) \div 2
           outsize == IF f.max_size # 0 /\ grown >= f.max_size
                      THEN f.max_size + MAX_OP_SIZE + 1 ELSE grown
       IN IF f.max_size # 0 /\ f.outpos > f.max_size
          THEN [f EXCEPT !.outsize = outsize, !.broke = TRUE]
          ELSE [f EXCEPT !.outsize = outsize]
  ELSE f

\* The end of a pass: the output buffer grows when the next instruction
\* might not fit.
GrowOutput(f) ==
  IF f.outpos >= f.outsize - MAX_OP_SIZE
  THEN LET grown == (f.outsize * 3) \div 2
           outsize == IF f.max_size # 0 /\ grown >= f.max_size
                      THEN f.max_size + MAX_OP_SIZE + 1 ELSE grown
       IN IF f.max_size # 0 /\ f.outpos > f.max_size
          THEN [f EXCEPT !.outsize = outsize, !.broke = TRUE]
          ELSE [f EXCEPT !.outsize = outsize]
  ELSE f

\* The frame after the probe that found the best match m for fingerprint
\* val.
Probed(f, val, m) ==
  [f EXCEPT !.val = val, !.msize = m.msize, !.msource = m.msource,
            !.moff = m.moff]

ProbeWith(f, idx, val) ==
  Probed(f, val,
         ProbeBucket([msize |-> f.msize, msource |-> f.msource,
                      moff |-> f.moff, stop |-> FALSE],
                     idx, AndMask(val, idx.hash_mask), val, f.trg, f.data,
                     f.top))

\* The probe at the top of a pass of the scan loop.
Probe(f, idx) ==
  IF f.msize < 4096
  THEN \* we don't have a 'worthy enough' match yet, so let's look for one
       ProbeWith(f, idx, SlideWindow(f.val, f.trg, f.data))
  ELSE f

\* if (msize < 4)
TooShort(msize) == msize < 4

\* if (msize < 4) { insert } else { copy }
InsertOrCopy(probed, idx) ==
  IF TooShort(probed.msize)
  THEN [frame |-> InsertByte(probed), emit |-> NoEmit]
  ELSE CopyMatch(probed, idx)

Grown(done) == [frame |-> GrowOutput(done.frame), emit |-> done.emit]

\* One pass of  while (data < top) { ... }
ScanPass(f, idx) == Grown(InsertOrCopy(Probe(f, idx), idx))

\* What create_delta returns once the loop has ended.
EncoderResult(f) ==
  LET out == IF f.inscnt # 0
             THEN Put(f.out, f.outpos - f.inscnt - 1, f.inscnt)
             ELSE f.out
  IN IF f.max_size # 0 /\ f.outpos > f.max_size
     THEN [rc |-> "DELTA_SIZE_TOO_BIG", delta_size |-> 0, delta_data |-> <<>>,
           written |-> FALSE]
     ELSE [rc |-> "DELTA_OK", delta_size |-> f.outpos,
           delta_data |-> SubSeq(out, 1, f.outpos), written |-> TRUE]


\* One pass of  while (data < top) { ... }  within a whole call.  peak is the
\* largest output position a pass has ended with.
WholePass(idx, st, k) ==
  IF st.frame.data < st.frame.top /\ ~st.frame.broke
  THEN [frame |-> ScanPass(st.frame, idx).frame,
        peak |-> IF ScanPass(st.frame, idx).frame.outpos > st.peak
                 THEN ScanPass(st.frame, idx).frame.outpos ELSE st.peak]
  ELSE st

\* What a whole call returns; done tells whether the loop has ended.
WholeResult(st) ==
  [done |-> ~(st.frame.data < st.frame.top /\ ~st.frame.broke),
   peak |-> st.peak,
   rc |-> EncoderResult(st.frame).rc,
   delta_size |-> EncoderResult(st.frame).delta_size,
   delta_data |-> EncoderResult(st.frame).delta_data]

WholeStart(f) ==
  [frame |-> f, peak |-> IF f.data < f.top THEN 0 ELSE f.outpos]

\* create_delta(index, trg_buf, trg_size, &delta_size, max_size,
\* &delta_data) for a target and an index that are not null, from the
\* allocation of the output buffer on, cut after the given number of passes.
create_delta(idx, trg, trg_size, max_size, passes) ==
  WholeResult(Iterate("whole_pass", idx,
                      WholeStart(EncoderStart(trg, trg_size, max_size)),
                      0, passes))
(* ----------------------------------------------------------------------- *)
(* The loops                                                               *)
(* ----------------------------------------------------------------------- *)
Body(loop, env, st, k) ==
  CASE loop = "window" -> WindowStep(env, st, k)
    [] loop = "limit_inner" -> LimitInnerStep(env, st, k)
    [] loop = "limit_outer" -> LimitOuter(env, st, k)
    [] loop = "limit_follow" -> LimitFollow(env, st, k)
    [] loop = "limit_hash" -> LimitHash(env, st, k)
    [] loop = "walk_back" -> WalkBack(env, st, k)
    [] loop = "fit_entry" -> FitEntry(env, st, k)
    [] loop = "fit_bucket" -> FitBucket(env, st, k)
    [] loop = "copy_old" -> CopyOldEntry(env, st, k)
    [] loop = "pack_bucket" -> PackBucket(env, st, k)
    [] loop = "scan_source" -> ScanSource(env, st, k)
    [] loop = "put_entry" -> PutEntry(env, st, k)
    [] loop = "header_byte" -> HeaderByte(env, st, k)
    [] loop = "insert_window" -> InsertWindow(env, st, k)
    [] loop = "parse_op" -> ParseOp(env, st, k)
    [] loop = "hole_back" -> HoleBack(env, st, k)
    [] loop = "fill_hole" -> FillHole(env, st, k)
    [] loop = "probe_slot" -> ProbeSlot(env, st, k)
    [] loop = "steal_byte" -> StealByte(env, st, k)
    [] loop = "first_insert" -> FirstInsert(env, st, k)
    [] loop = "whole_pass" -> WholePass(env, st, k)

\* The range is split in halves so that the evaluation depth is logarithmic
\* in the number of passes; the state after the first half is bound as a
\* value before the second half starts from it.
Iterate(loop, env, st, lo, hi) ==
  IF lo >= hi THEN st
  ELSE IF hi = lo + 1 THEN Body(loop, env, st, lo)
  ELSE LET mid == (lo + hi) \div 2
       IN CHOOSE r \in { Iterate(loop, env, left, mid, hi) :
                           left \in { Iterate(loop, env, st, lo, mid) } } : TRUE

(* ----------------------------------------------------------------------- *)
(* The state of a caller that builds one index and encodes against it      *)
(* ----------------------------------------------------------------------- *)
\* Bounds of the exploration.
MaxSources == 2
MaxPasses == 150
CapSize == 24
MaxAggSize == Len(Buffers[4]) + Len(Buffers[14])

vars == <<srcs, index, pc, cd, call, lim>>

NoFrame == [trg |-> NULL]
NoCall == [op |-> "none"]
NoLimit == [hash_count |-> <<>>]

Init ==
  /\ srcs = <<>>
  /\ index = NoIndex
  /\ pc = "idle"
  /\ cd = NoFrame
  /\ call = NoCall
  /\ lim = NoLimit

\* The caller gives each source the summed sizes of the sources before it.
AggSize == IF srcs = <<>> THEN 0
           ELSE srcs[Len(srcs)].agg_offset + srcs[Len(srcs)].size

OldMask == IF index.mem = NULL THEN 0 ELSE index.hash_mask

\* The caller's variables after create_delta_index has returned res.  The
\* call record keeps the index that was passed as old and the entries the
\* call had to add.
IndexReturns(b, info, res) ==
  /\ call' = [op |-> "create_delta_index", buf |-> b, rc |-> res.rc,
              same |-> res.same, counted |-> res.counted,
              copied_count |-> res.copied_count,
              fault |-> res.fault, written |-> res.written,
              old_null |-> index.mem = NULL, old_mask |-> OldMask,
              old |-> index, added |-> res.added]
  /\ index' = IF res.written THEN res.fresh ELSE index
  /\ srcs' = IF res.rc = "DELTA_OK" THEN Append(srcs, info) ELSE srcs

\* The source_info record the caller fills in for buffer b.
SourceInfo(b) == [buf |-> b, size |-> InfoSize(b), agg_offset |-> AggSize]

CreateDeltaIndex(b) ==
  /\ pc = "idle"
  /\ Len(srcs) < MaxSources
  /\ AggSize + InfoSize(b) <= MaxAggSize
  /\ IndexReturns(b, SourceInfo(b),
                  create_delta_index(Len(srcs) + 1, SourceInfo(b), index, 0,
                                     index.mem + 1))
  /\ pc' = "returned"
  /\ UNCHANGED <<cd, lim>>

\* The caller's variables after create_delta_index_from_delta has returned
\* res.
DeltaIndexReturns(b, info, res) ==
  /\ call' = [op |-> "create_delta_index_from_delta", buf |-> b,
              rc |-> res.rc, same |-> res.same, counted |-> res.counted,
              num_inserted |-> res.num_inserted,
              overflow |-> res.overflow, written |-> res.written,
              old_null |-> index.mem = NULL, old_mask |-> OldMask,
              old |-> index, added |-> res.added]
  /\ index' = IF res.written THEN res.fresh ELSE res.old
  /\ srcs' = IF res.rc = "DELTA_OK" THEN Append(srcs, info) ELSE srcs

CreateDeltaIndexFromDelta(b) ==
  /\ pc = "idle"
  /\ Len(srcs) < MaxSources
  /\ AggSize + InfoSize(b) <= MaxAggSize
  /\ DeltaIndexReturns(
       b, SourceInfo(b),
       create_delta_index_from_delta(Len(srcs) + 1, SourceInfo(b), index,
                                     index.mem + 1))
  /\ pc' = "returned"
  /\ UNCHANGED <<cd, lim>>

\* The mutation of CheckArgs that looks at the index first.
CheckIndexFirst(trg_buf, trg_size, idx) ==
  IF idx.mem = NULL THEN "DELTA_INDEX_NEEDED"
  ELSE IF trg_buf = NULL \/ trg_size = 0 THEN "DELTA_BUFFER_EMPTY"
  ELSE "running"

\* create_delta's checks of its arguments:
\*     if (!trg_buf || !trg_size) return DELTA_BUFFER_EMPTY;
\*     if (index == NULL) return DELTA_INDEX_NEEDED;
CheckArgs(trg_buf, trg_size, idx) ==
  IF trg_buf = NULL \/ trg_size = 0 THEN "DELTA_BUFFER_EMPTY"
  ELSE IF idx.mem = NULL THEN "DELTA_INDEX_NEEDED"
  ELSE "running"

\* create_delta up to its scan loop.
CreateDelta(t, max_size) ==
  /\ pc = "idle"
  /\ call' = [op |-> "create_delta", trg |-> t, max_size |-> max_size,
              rc |-> CheckArgs(t, InfoSize(t), index), written |-> FALSE,
              emits |-> <<>>]
  /\ IF CheckArgs(t, InfoSize(t), index) = "running"
     THEN /\ pc' = "scan"
          /\ cd' = EncoderStart(t, BufLen(t), max_size)
     ELSE /\ pc' = "returned"
          /\ cd' = cd
  /\ UNCHANGED <<srcs, index, lim>>

\* The caller's variables after one pass that ended as res.
PassEnds(res) ==
  /\ cd' = [res.frame EXCEPT !.passes = @ + 1]
  /\ call' = IF res.emit = NoEmit THEN call
             ELSE [call EXCEPT !.emits = Append(@, res.emit)]

\* One pass of create_delta's scan loop.
ScanStep ==
  /\ pc = "scan"
  /\ cd.data < cd.top
  /\ ~cd.broke
  /\ cd.passes < MaxPasses
  /\ PassEnds(ScanPass(cd, index))
  /\ UNCHANGED <<srcs, index, pc, lim>>

\* create_delta after its scan loop.
FinishDelta ==
  /\ pc = "scan"
  /\ cd.data >= cd.top \/ cd.broke
  /\ LET res == EncoderResult(cd)
     IN call' = [call EXCEPT !.rc = res.rc, !.written = res.written] @@
                [delta_size |-> res.delta_size, delta_data |-> res.delta_data,
                 asserted |-> cd.asserted]
  /\ pc' = "returned"
  /\ cd' = NoFrame
  /\ UNCHANGED <<srcs, index, lim>>

\* The caller has looked at the result.
Return ==
  /\ pc = "returned"
  /\ pc' = "idle"
  /\ call' = NoCall
  /\ UNCHANGED <<srcs, index, cd, lim>>

Next ==
  \/ \E b \in SourceBufs : CreateDeltaIndex(b)
  \/ \E b \in DeltaBufs : CreateDeltaIndexFromDelta(b)
  \/ \E t \in TargetBufs, max_size \in {0, CapSize} : CreateDelta(t, max_size)
  \/ ScanStep
  \/ FinishDelta
  \/ Return

Spec == Init /\ [][Next]_vars

(* ----------------------------------------------------------------------- *)
(* A caller that encodes sources against their own index                   *)
(* ----------------------------------------------------------------------- *)
\* The same calls as in Spec, on other buffers: the sources are also
\* targets, next to targets cut out of them.
EncodeSources == {2, 3, 4, 14, 18}
EncodeTargets == {2, 3, 4, 14, 17, 18, 19, 22}

EncodeNext ==
  \/ \E b \in EncodeSources : CreateDeltaIndex(b)
  \/ \E t \in EncodeTargets, max_size \in {0, CapSize} :
       CreateDelta(t, max_size)
  \/ ScanStep
  \/ FinishDelta
  \/ Return

EncodeSpec == Init /\ [][EncodeNext]_vars


(* ----------------------------------------------------------------------- *)
(* A caller whose targets hold runs longer than one copy instruction       *)
(* ----------------------------------------------------------------------- *)
SplitSources == {4, 14}
SplitTargets == {4, 20, 21}

SplitNext ==
  \/ \E b \in SplitSources : CreateDeltaIndex(b)
  \/ \E t \in SplitTargets, max_size \in {0, CapSize} :
       CreateDelta(t, max_size)
  \/ ScanStep
  \/ FinishDelta
  \/ Return

SplitSpec == Init /\ [][SplitNext]_vars


(* ----------------------------------------------------------------------- *)
(* A caller whose calls run to their end                                   *)
(* ----------------------------------------------------------------------- *)
\* Targets whose scan takes fewer than MaxPasses passes against the index
\* of buffer 4.
LiveSources == {4}
LiveTargets == {4, 10, 12, 14, 20, 21}

LiveNext ==
  \/ \E b \in LiveSources : CreateDeltaIndex(b)
  \/ \E t \in LiveTargets, max_size \in {0, CapSize} :
       CreateDelta(t, max_size)
  \/ ScanStep
  \/ FinishDelta
  \/ Return

\* The scan loop can take another pass.
ScanReady ==
  pc = "scan" /\ cd.data < cd.top /\ ~cd.broke /\ cd.passes < MaxPasses

\* create_delta runs to completion on the calling thread: a pass of the scan
\* loop that can be taken is taken, and so is the code after the loop.  The
\* first condition is WF_vars(ScanStep) with the enabling condition of
\* ScanStep written out.
LiveSpec ==
  /\ Init /\ [][LiveNext]_vars
  /\ ([]<>~ScanReady \/ []<><<ScanStep>>_vars)
  /\ WF_vars(FinishDelta)
(* ----------------------------------------------------------------------- *)
(* limit_hash_buckets on its own                                           *)
(* ----------------------------------------------------------------------- *)
\* Bounds: the table has LimitBuckets buckets; the first holds up to
\* LimitCount entries, the others up to HASH_LIMIT + LimitSpan; the caller
\* counts up to LimitOld entries of an old index into the total.
LimitBuckets == 2
LimitCount == 260
LimitSpan == 1
LimitOld == 1

\* The list create_delta_index has built for a bucket of n entries: each
\* window is put in front of the list, the scan runs from the end of the
\* buffer to its start, so the list is in the order of the buffer.
BucketList(n) ==
  [k \in 1..n |-> [ptr |-> k * RABIN_WINDOW, src |-> 1, val |-> Zero32]]
    \o <<>>

RECURSIVE Total(_, _)
Total(hash_count, k) ==
  IF k > Len(hash_count) THEN 0 ELSE hash_count[k] + Total(hash_count, k + 1)

LimitInit ==
  /\ srcs = <<>>
  /\ index = NoIndex
  /\ pc = "idle"
  /\ cd = NoFrame
  /\ call = NoCall
  /\ \E old \in 0..LimitOld :
       lim = [hash_count |-> <<>>, old |-> old, called |-> FALSE]

\* The scan has filled another bucket with n entries.
FillBucket(n) ==
  /\ ~lim.called
  /\ Len(lim.hash_count) < LimitBuckets
  /\ \/ Len(lim.hash_count) = 0
     \/ n = 0
     \/ n \in HASH_LIMIT..(HASH_LIMIT + LimitSpan)
  /\ lim' = [lim EXCEPT !.hash_count = Append(@, n)]
  /\ UNCHANGED <<srcs, index, pc, cd, call>>

\* total_num_entries = limit_hash_buckets(hash, hash_count, hsize,
\*                                        total_num_entries);
LimitCall ==
  /\ ~lim.called
  /\ Len(lim.hash_count) = LimitBuckets
  /\ lim' = [lim EXCEPT !.called = TRUE] @@
            [input |-> [k \in 1..LimitBuckets |->
                          BucketList(lim.hash_count[k])],
             entries |-> Total(lim.hash_count, 1) + lim.old,
             result |->
               limit_hash_buckets(
                 [k \in 1..LimitBuckets |-> BucketList(lim.hash_count[k])],
                 lim.hash_count, LimitBuckets,
                 Total(lim.hash_count, 1) + lim.old)]
  /\ UNCHANGED <<srcs, index, pc, cd, call>>

LimitNext ==
  \/ \E n \in 0..LimitCount : FillBucket(n)
  \/ LimitCall

LimitSpec == LimitInit /\ [][LimitNext]_vars

(* ----------------------------------------------------------------------- *)
(* A caller that limits the bytes to index                                 *)
(* ----------------------------------------------------------------------- *)
BudgetSources == {2, 13, 14, 23}
BudgetCaps == {0, 8, 16, 80}

\* What a build makes of the unsigned division by zero in
\*     stride = (src->size - 1) / num_entries;
\* the processor traps, or the division leaves some quotient.
DivZeroOutcomes == {"trap", "quotient"}

\* The locals of create_delta_index when its scan loop has ended.
IndexScan(src, info, old, budget, total_num_entries) ==
  [budget |-> budget,
   hsize |-> IndexHashSize(old, total_num_entries),
   scanned |-> PopulateIndex(src, info.buf, budget, total_num_entries,
                             IndexHashSize(old, total_num_entries))]

NoScan == [budget |-> [num_entries |-> 0]]

\* create_delta_index(&info, index, &index, max_bytes_to_index), with the
\* locals of the call kept in the call record.
CreateDeltaIndexCapped(b, max_bytes_to_index, outcome) ==
  /\ pc = "idle"
  /\ Len(srcs) < MaxSources
  /\ LET info == SourceInfo(b)
         budget == EntryBudget(info.size, max_bytes_to_index)
         res == create_delta_index(Len(srcs) + 1, info, index,
                                   max_bytes_to_index, index.mem + 1)
     IN IF info.buf # NULL /\ info.size # 0 /\ budget.divzero
           /\ outcome = "trap"
        THEN /\ call' = [op |-> "create_delta_index", buf |-> b,
                         max_bytes_to_index |-> max_bytes_to_index,
                         rc |-> "SIGFPE"]
             /\ pc' = "killed"
             /\ UNCHANGED <<srcs, index>>
        ELSE /\ call' = [op |-> "create_delta_index", buf |-> b,
                         max_bytes_to_index |-> max_bytes_to_index,
                         rc |-> res.rc, same |-> res.same,
                         counted |-> res.counted, fault |-> res.fault,
                         written |-> res.written, old |-> index,
                         added |-> res.added,
                         scan |-> IF res.rc = "DELTA_OK"
                                  THEN IndexScan(
                                         Len(srcs) + 1, info, index, budget,
                                         budget.num_entries
                                           + (IF index.mem # NULL
                                              THEN index.num_entries ELSE 0))
                                  ELSE NoScan]
             /\ index' = IF res.written THEN res.fresh ELSE index
             /\ srcs' = IF res.rc = "DELTA_OK" THEN Append(srcs, info)
                        ELSE srcs
             /\ pc' = "returned"
  /\ UNCHANGED <<cd, lim>>

BudgetNext ==
  \/ \E b \in BudgetSources, max_bytes_to_index \in BudgetCaps,
        outcome \in DivZeroOutcomes :
       CreateDeltaIndexCapped(b, max_bytes_to_index, outcome)
  \/ Return

BudgetSpec == Init /\ [][BudgetNext]_vars

(* ----------------------------------------------------------------------- *)
(* rabin_hash and the sliding window                                       *)
(* ----------------------------------------------------------------------- *)
\* Bound: a fingerprint is slid along its buffer up to MaxSlides times.
MaxSlides == 2

\* The buffers fingerprints are taken of, at every offset that leaves a
\* window and the bytes to slide over.
SlideBufs == {1, 25}
SlideSources == {2}
SlideTargets == {12, 17}

\* unsigned int rabin_hash(const unsigned char *data):
\*     for (i = 0; i < RABIN_WINDOW; i++) val = ... data[i] ...
rabin_hash(b, data) ==
  Iterate("window", [b |-> b, data |-> data], Zero32, 0, RABIN_WINDOW)

\* val = rabin_hash(buf + data);
RabinHash(b, data) ==
  /\ pc = "idle"
  /\ data + RABIN_WINDOW + MaxSlides <= BufLen(b)
  /\ call' = [op |-> "rabin_hash", buf |-> b, data |-> data, slides |-> 0,
              removed |-> Zero32, val |-> rabin_hash(b, data)]
  /\ pc' = "returned"
  /\ UNCHANGED <<srcs, index, cd, lim>>

\* The two statements that shift the window by one byte, applied to the
\* fingerprint of the window at call.data; removed is val after the first.
SlideStep ==
  /\ pc = "returned"
  /\ call.op = "rabin_hash"
  /\ call.slides < MaxSlides
  /\ call' = [call EXCEPT
                !.removed = Xor32(call.val, U[Byte(call.buf, call.data) + 1]),
                !.val = SlideWindow(call.val, call.buf,
                                    call.data + RABIN_WINDOW),
                !.data = @ + 1,
                !.slides = @ + 1]
  /\ UNCHANGED <<srcs, index, pc, cd, lim>>

SlideNext ==
  \/ \E b \in SlideBufs :
       \E data \in 0..(BufLen(b) - RABIN_WINDOW) : RabinHash(b, data)
  \/ SlideStep
  \/ \E b \in SlideSources : CreateDeltaIndex(b)
  \/ \E t \in SlideTargets : CreateDelta(t, 0)
  \/ ScanStep
  \/ FinishDelta
  \/ Return

SlideSpec == Init /\ [][SlideNext]_vars

(* ----------------------------------------------------------------------- *)
(* A caller whose deltas fill the output buffer                            *)
(* ----------------------------------------------------------------------- *)
\* Bound: the largest max_size the caller passes, above the 8192 bytes the
\* output buffer starts with.
BigCap == 8200

\* The caller builds one index and encodes short targets and a target whose
\* delta is longer than the first output buffer, with max_size 0, below the
\* size of the header and the first insert, at that size, and above it.
GrowSources == {1}
GrowTargets == {10, 12, 26}
GrowCaps == {0, 1, 1 + 1 + RABIN_WINDOW, CapSize, BigCap}

\* One pass of the scan loop of a call that is not cut short.
LongScanStep ==
  /\ pc = "scan"
  /\ cd.data < cd.top
  /\ ~cd.broke
  /\ PassEnds(ScanPass(cd, index))
  /\ UNCHANGED <<srcs, index, pc, lim>>

GrowNext ==
  \/ \E b \in GrowSources : index.mem = NULL /\ CreateDeltaIndex(b)
  \/ \E t \in GrowTargets, max_size \in GrowCaps : CreateDelta(t, max_size)
  \/ LongScanStep
  \/ FinishDelta
  \/ Return

GrowSpec == Init /\ [][GrowNext]_vars

(* ----------------------------------------------------------------------- *)
(* The opcode stream as its reader sees it                                 *)
(* ----------------------------------------------------------------------- *)
\* Bit w (a power of two) of byte b.
Bit(b, w) == (b \div w) % 2

\* Byte pos of stream (from 0), zero past its end.
StreamByte(stream, pos) == IF pos < Len(stream) THEN stream[pos + 1] ELSE 0

\* The size header that starts at pos: low 7 bits first, the top bit set on
\* every byte but the last.
RECURSIVE ReadSize(_, _, _, _)
ReadSize(stream, pos, weight, acc) ==
  IF pos >= Len(stream) THEN [ok |-> FALSE, size |-> acc, next |-> pos]
  ELSE IF stream[pos + 1] >= 128
  THEN ReadSize(stream, pos + 1, weight * 128,
                acc + (stream[pos + 1] - 128) * weight)
  ELSE [ok |-> stream[pos + 1] >= 0, size |-> acc + stream[pos + 1] * weight,
        next |-> pos + 1]

\* The copy opcode whose control byte is at position at: the offset bytes
\* flagged by bits 0-3 and the length bytes flagged by bits 4-5 follow it,
\* low byte first; an omitted byte is zero and a zero length means 65536.
ReadCopy(stream, at) ==
  LET cmd == stream[at + 1]
      p1 == at + 1 + Bit(cmd, 1)
      p2 == p1 + Bit(cmd, 2)
      p3 == p2 + Bit(cmd, 4)
      p4 == p3 + Bit(cmd, 8)
      p5 == p4 + Bit(cmd, 16)
      p6 == p5 + Bit(cmd, 32)
      len == Bit(cmd, 16) * StreamByte(stream, p4)
             + Bit(cmd, 32) * StreamByte(stream, p5) * 256
  IN [kind |-> "copy", at |-> at,
      off |-> Bit(cmd, 1) * StreamByte(stream, at + 1)
              + Bit(cmd, 2) * StreamByte(stream, p1) * 256
              + Bit(cmd, 4) * StreamByte(stream, p2) * 65536
              + Bit(cmd, 8) * StreamByte(stream, p3) * 16777216,
      len |-> IF len = 0 THEN 65536 ELSE len,
      next |-> p6]

\* The opcodes of stream from position pos on.  The list ends with a
\* "reserved" entry at a count byte that is not in 1..127 and no copy, and
\* with a "truncated" entry at an opcode whose operands or literals pass the
\* end of the stream.
RECURSIVE Opcodes(_, _)
Opcodes(stream, pos) ==
  IF pos >= Len(stream) THEN <<>>
  ELSE LET cmd == stream[pos + 1]
           cut == [kind |-> "truncated", at |-> pos, off |-> 0, len |-> 0,
                   next |-> Len(stream)]
       IN IF cmd >= 128
          THEN IF ReadCopy(stream, pos).next > Len(stream) THEN <<cut>>
               ELSE <<ReadCopy(stream, pos)>>
                      \o Opcodes(stream, ReadCopy(stream, pos).next)
          ELSE IF cmd >= 1
          THEN IF pos + 1 + cmd > Len(stream) THEN <<cut>>
               ELSE <<[kind |-> "insert", at |-> pos, off |-> pos + 1,
                       len |-> cmd, next |-> pos + 1 + cmd]>>
                      \o Opcodes(stream, pos + 1 + cmd)
          ELSE <<[kind |-> "reserved", at |-> pos, off |-> 0, len |-> 0,
                  next |-> Len(stream)]>>

\* The opcodes that follow the size header of stream.
StreamOps(stream) == Opcodes(stream, ReadSize(stream, 0, 1, 0).next)

WellFormed(ops) ==
  \A k \in 1..Len(ops) : ops[k].kind \in {"copy", "insert"}

\* The concatenation of the first n indexed sources.
RECURSIVE SourceBytes(_)
SourceBytes(n) ==
  IF n = 0 THEN <<>> ELSE SourceBytes(n - 1) \o Buffers[srcs[n].buf]

\* What replaying ops[k..] of stream against the reference bytes ref
\* produces; a copy that leaves ref produces a byte no buffer holds.
RECURSIVE Replay(_, _, _, _)
Replay(stream, ops, k, ref) ==
  IF k > Len(ops) THEN <<>>
  ELSE (IF ops[k].kind = "insert"
        THEN SubSeq(stream, ops[k].off + 1, ops[k].off + ops[k].len)
        ELSE IF ops[k].kind = "copy" /\ ops[k].off + ops[k].len <= Len(ref)
        THEN SubSeq(ref, ops[k].off + 1, ops[k].off + ops[k].len)
        ELSE <<Uninit>>)
       \o Replay(stream, ops, k + 1, ref)

\* create_delta has returned DELTA_OK with a stream.
Encoded ==
  pc = "returned" /\ call.op = "create_delta" /\ call.rc = "DELTA_OK"

\* The copy opcodes among ops, in order.
IsCopy(op) == op.kind = "copy"
Copies(ops) == SelectSeq(ops, IsCopy)

RECURSIVE SumLen(_, _)
SumLen(ops, k) == IF k > Len(ops) THEN 0 ELSE ops[k].len + SumLen(ops, k + 1)

\* C1: round trip.  Whenever create_delta returns DELTA_OK for a target,
\* replaying the stream it returned (an insert gives its literal bytes, a
\* copy gives the bytes of the concatenation of the indexed sources at its
\* decoded offset and length) gives back the target exactly.
RoundTrip ==
  Encoded =>
    /\ ReadSize(call.delta_data, 0, 1, 0).ok
    /\ Replay(call.delta_data, StreamOps(call.delta_data), 1,
              SourceBytes(Len(srcs))) = Buffers[call.trg]

\* A stream with literal bytes and a copy out of the second source, which
\* was merged into the index of the first one from a delta.
RoundTripSecondSource ==
  /\ Encoded
  /\ Len(srcs) = 2
  /\ srcs[2].buf \in DeltaBufs
  /\ \E k \in 1..Len(call.emits) : call.emits[k].source = 2
  /\ \E k \in 1..Len(StreamOps(call.delta_data)) :
       StreamOps(call.delta_data)[k].kind = "insert"

\* C2: every copy opcode of a returned stream decodes to a length of at
\* least 4, and a pass of the scan loop whose best match is shorter than 4
\* bytes emits no copy and writes the target byte as a literal.
CopyAtLeastFour ==
  [][/\ Encoded' =>
          \A k \in 1..Len(Copies(StreamOps(call'.delta_data))) :
            Copies(StreamOps(call'.delta_data))[k].len >= 4
     /\ (pc = "scan" /\ pc' = "scan" /\ Probe(cd, index).msize < 4) =>
          /\ call'.emits = call.emits
          /\ cd'.data = cd.data + 1
          /\ cd'.out[cd'.outpos] = Byte(cd.trg, cd.data)
          /\ cd'.inscnt = (cd.inscnt + 1) % 127]_vars

\* A match longer than a copy can hold was emitted as a full copy and a
\* copy of the part that was carried over.
CopySplitSeen ==
  /\ Encoded
  /\ Len(call.emits) >= 2
  /\ call.emits[1].msize = 65536
  /\ call.emits[2].local = call.emits[1].local + 65536
  /\ call.emits[2].msize >= 4

\* C3: in a returned stream every opcode that is not a copy is a count in
\* 1..127 followed by that many literal bytes up to the end of the stream;
\* no slot of the stream was left unwritten, and a run of literals is cut
\* in two only at 127 bytes.
InsertCounts ==
  Encoded =>
    /\ WellFormed(StreamOps(call.delta_data))
    /\ \A k \in 1..Len(call.delta_data) : call.delta_data[k] \in 0..255
    /\ \A k \in 1..(Len(StreamOps(call.delta_data)) - 1) :
         (/\ StreamOps(call.delta_data)[k].kind = "insert"
          /\ StreamOps(call.delta_data)[k + 1].kind = "insert")
         => StreamOps(call.delta_data)[k].len = 127
    /\ \A k \in 1..Len(call.emits) :
         \E j \in 1..Len(StreamOps(call.delta_data)) :
           /\ StreamOps(call.delta_data)[j].kind = "copy"
           /\ StreamOps(call.delta_data)[j].at = call.emits[k].at

\* A stream with a run closed at 127 bytes and continued, a run that a copy
\* stole back entirely, and a last run.
InsertRunsSeen ==
  /\ Encoded
  /\ \E k \in 1..(Len(StreamOps(call.delta_data)) - 1) :
       /\ StreamOps(call.delta_data)[k].kind = "insert"
       /\ StreamOps(call.delta_data)[k].len = 127
       /\ StreamOps(call.delta_data)[k + 1].kind = "insert"
  /\ \E k \in 1..Len(call.emits) :
       /\ call.emits[k].pending > 0
       /\ call.emits[k].stolen = call.emits[k].pending
  /\ StreamOps(call.delta_data)[Len(StreamOps(call.delta_data))].kind
       = "insert"

\* C4: the copy opcodes of a returned stream are, in order, the matches the
\* encoder emitted.  Each has bit 7 set, bits 0-3 set exactly for the
\* non-zero bytes of the global offset (local offset + agg_offset of the
\* source), bits 4-5 set exactly for the non-zero bytes of the length, and
\* decodes to that offset and length.
CopyEncoding ==
  Encoded =>
    /\ Len(Copies(StreamOps(call.delta_data))) = Len(call.emits)
    /\ \A k \in 1..Len(call.emits) :
         LET e == call.emits[k]
             o == Copies(StreamOps(call.delta_data))[k]
             cmd == call.delta_data[o.at + 1]
             global == e.local + srcs[e.source].agg_offset
         IN /\ o.at = e.at
            /\ Bit(cmd, 128) = 1
            /\ Bit(cmd, 64) = 0
            /\ Bit(cmd, 1) = 1 <=> global % 256 # 0
            /\ Bit(cmd, 2) = 1 <=> (global \div 256) % 256 # 0
            /\ Bit(cmd, 4) = 1 <=> (global \div 65536) % 256 # 0
            /\ Bit(cmd, 8) = 1 <=> (global \div 16777216) % 256 # 0
            /\ Bit(cmd, 16) = 1 <=> e.msize % 256 # 0
            /\ Bit(cmd, 32) = 1 <=> (e.msize \div 256) % 256 # 0
            /\ o.off = global
            /\ o.len = e.msize

\* A stream with a copy of 65536 bytes (no length byte), and a copy out of
\* the second source whose global offset has a zero byte between two
\* non-zero ones.
CopyEncodingSeen ==
  /\ Encoded
  /\ \E k \in 1..Len(call.emits) : call.emits[k].msize = 65536
  /\ \E k \in 1..Len(call.emits) :
       /\ call.emits[k].source = 2
       /\ call.emits[k].moff % 256 # 0
       /\ (call.emits[k].moff \div 256) % 256 = 0
       /\ call.emits[k].moff \div 65536 # 0

\* C5: a returned stream starts with the target length, 7 bits per byte
\* from the low end, the top bit set on every byte but the last, and the
\* insert counts and copy lengths that follow add up to the target length.
HeaderAndLengths ==
  Encoded =>
    /\ ReadSize(call.delta_data, 0, 1, 0).ok
    /\ ReadSize(call.delta_data, 0, 1, 0).size = BufLen(call.trg)
    /\ \/ ReadSize(call.delta_data, 0, 1, 0).next = 1
       \/ call.delta_data[ReadSize(call.delta_data, 0, 1, 0).next] # 0
    /\ WellFormed(StreamOps(call.delta_data))
    /\ SumLen(StreamOps(call.delta_data), 1) = BufLen(call.trg)

\* A stream for a target of more than 127 bytes, with inserts and copies.
LongHeaderSeen ==
  /\ Encoded
  /\ BufLen(call.trg) >= 128
  /\ ReadSize(call.delta_data, 0, 1, 0).next >= 2
  /\ \E k \in 1..Len(StreamOps(call.delta_data)) :
       StreamOps(call.delta_data)[k].kind = "insert"
  /\ call.emits # <<>>

(* ----------------------------------------------------------------------- *)
(* The index the builders return                                           *)
(* ----------------------------------------------------------------------- *)
\* A call that builds or merges an index has returned DELTA_OK.
IndexBuilt ==
  /\ pc = "returned"
  /\ call.op \in {"create_delta_index", "create_delta_index_from_delta"}
  /\ call.rc = "DELTA_OK"

\* The slots of bucket i that hold an entry.
LiveSlots(idx, i) ==
  {s \in BucketStart(idx, i)..(BucketStart(idx, i + 1) - 1) :
     Slot(idx, s).ptr # NULL}

\* C6: the index a successful build or merge returns has a power of two as
\* its bucket count, and at least as many buckets as the old index it was
\* given.
BucketCountKept ==
  IndexBuilt =>
    /\ \E i \in 4..31 : index.hash_mask + 1 = 2^i
    /\ ~call.old_null => index.hash_mask >= call.old_mask

\* A merge from a delta that allocated a new index whose entry count alone
\* asks for fewer buckets than the old index had.
BucketCountForced ==
  /\ IndexBuilt
  /\ call.op = "create_delta_index_from_delta"
  /\ ~call.same
  /\ index.hash_mask = call.old_mask
  /\ 2^HashBits(4, index.num_entries \div 4) < index.hash_mask + 1

\* C7: after a successful build or merge, in every bucket an entry of an
\* earlier-indexed source stands before every entry of a later-indexed one.
EarlierSourceFirst ==
  IndexBuilt =>
    \A i \in 0..index.hash_mask :
      \A s, t \in LiveSlots(index, i) :
        s < t => Slot(index, s).src <= Slot(index, t).src

\* A merge by create_delta_index that put some new entries into the free
\* slots of the old index, ran out of room and allocated a new index, in
\* which a bucket holds entries of both sources.
PartialFitSeen ==
  /\ IndexBuilt
  /\ call.op = "create_delta_index"
  /\ ~call.same
  /\ call.copied_count > 0
  /\ \E i \in 0..index.hash_mask :
       \E s, t \in LiveSlots(index, i) :
         Slot(index, s).src = 1 /\ Slot(index, t).src = 2

\* C8: in the index a successful build or merge returns, no bucket holds
\* more than HASH_LIMIT entries.
BucketCap ==
  IndexBuilt =>
    \A i \in 0..index.hash_mask :
      Cardinality(LiveSlots(index, i)) <= HASH_LIMIT

\* C9: limit_hash_buckets leaves a bucket of at most HASH_LIMIT entries as
\* it is; of a longer one it keeps exactly HASH_LIMIT entries, the first
\* one among them, in their order, without following a null pointer; and
\* it returns the total it was given less the entries it removed.
LimitExact ==
  lim.called =>
    /\ ~lim.result.fault
    /\ \A k \in 1..Len(lim.hash_count) :
         IF lim.hash_count[k] <= HASH_LIMIT
         THEN lim.result.hash[k] = lim.input[k]
         ELSE /\ Len(lim.result.hash[k]) = HASH_LIMIT
              /\ lim.result.hash[k][1] = lim.input[k][1]
              /\ \A j \in 1..HASH_LIMIT :
                   \E p \in 1..lim.hash_count[k] :
                     lim.result.hash[k][j] = lim.input[k][p]
              /\ \A j \in 1..(HASH_LIMIT - 1) :
                   lim.result.hash[k][j].ptr < lim.result.hash[k][j + 1].ptr
    /\ lim.result.entries
         = lim.entries
           - Total([k \in 1..Len(lim.hash_count) |->
                      IF lim.hash_count[k] > HASH_LIMIT
                      THEN lim.hash_count[k] - HASH_LIMIT ELSE 0], 1)

\* A call on a table with a bucket of more than three times HASH_LIMIT
\* entries and a bucket of exactly HASH_LIMIT entries.
LimitSeen ==
  /\ lim.called
  /\ lim.hash_count[1] > 3 * HASH_LIMIT
  /\ lim.hash_count[2] = HASH_LIMIT
  /\ lim.result.entries < lim.entries

\* C10: create_delta_index_from_delta, given an old index and a delta
\* buffer whose opcodes hold a zero command byte or end in a truncated
\* insert or copy, returns DELTA_SOURCE_BAD.
MalformedRejected ==
  (/\ pc = "returned"
   /\ call.op = "create_delta_index_from_delta"
   /\ ~call.old_null
   /\ call.buf # NULL
   /\ ~WellFormed(StreamOps(Buffers[call.buf])))
  => call.rc = "DELTA_SOURCE_BAD"

(* ----------------------------------------------------------------------- *)
(* The byte cap of create_delta                                            *)
(* ----------------------------------------------------------------------- *)
\* create_delta has returned from a call with a byte cap that passed the
\* checks of its arguments.
CappedReturn ==
  /\ pc = "returned"
  /\ call.op = "create_delta"
  /\ call.max_size > 0
  /\ call.rc \in {"DELTA_OK", "DELTA_SIZE_TOO_BIG"}

\* The call of the same index and target without a cap.
Uncapped == create_delta(index, call.trg, BufLen(call.trg), 0, MaxPasses)

\* c is the capped call as it returned, u the uncapped call.
CapExactFor(c, u) ==
  u.done =>
    /\ c.rc = "DELTA_SIZE_TOO_BIG" <=> u.delta_size > c.max_size
    /\ c.rc = "DELTA_OK" =>
         /\ c.delta_size <= c.max_size
         /\ c.delta_data = u.delta_data

\* C11 as stated: with a cap, create_delta returns DELTA_SIZE_TOO_BIG
\* exactly when the delta of the uncapped call is longer than max_size, and
\* a delta it returns has at most max_size bytes, the bytes of the uncapped
\* call.
CapExact == CappedReturn => CapExactFor(call, Uncapped)

CapAtPassEndFor(c, u) ==
  /\ u.peak > c.max_size => c.rc = "DELTA_SIZE_TOO_BIG"
  /\ (u.done /\ u.peak <= c.max_size) =>
       /\ c.rc = "DELTA_OK"
       /\ c.delta_size <= c.max_size
       /\ c.delta_size = u.delta_size
       /\ c.delta_data = u.delta_data
  /\ u.done => u.delta_size <= u.peak

\* C11 amended: with a cap, create_delta returns DELTA_SIZE_TOO_BIG exactly
\* when the output position is beyond max_size at the end of a pass of the
\* scan loop (for a target without a pass, after the first insert), which
\* includes every call whose uncapped delta is longer than max_size; else
\* it returns DELTA_OK with at most max_size bytes, the bytes of the
\* uncapped call.
CapAtPassEnd == CappedReturn => CapAtPassEndFor(call, Uncapped)

CapGivenUpFor(c, u) ==
  /\ c.rc = "DELTA_SIZE_TOO_BIG"
  /\ u.done
  /\ u.delta_size <= c.max_size

\* A capped call that returned DELTA_SIZE_TOO_BIG for a pending insert that
\* the next copy of the uncapped call takes back, so that the uncapped
\* delta has fewer than max_size bytes.
CapGivenUp == CappedReturn /\ CapGivenUpFor(call, Uncapped)

(* ----------------------------------------------------------------------- *)
(* Calls that are refused at once                                          *)
(* ----------------------------------------------------------------------- *)
\* A call of create_delta_index returns in this step.
IndexCallReturns ==
  /\ pc = "idle"
  /\ pc' = "returned"
  /\ call'.op = "create_delta_index"

\* C12: create_delta_index called with a null buffer or with size 0 returns
\* DELTA_SOURCE_EMPTY, stores nothing in *fresh and leaves the old index
\* and the caller's sources as they were.
EmptySourceRefused ==
  [][(IndexCallReturns /\ (call'.buf = NULL \/ InfoSize(call'.buf) = 0))
       => /\ call'.rc = "DELTA_SOURCE_EMPTY"
          /\ ~call'.written
          /\ index' = index
          /\ srcs' = srcs]_vars

\* create_delta_index has refused a null buffer while it had an old index
\* with entries.
EmptySourceSeen ==
  /\ pc = "returned"
  /\ call.op = "create_delta_index"
  /\ call.buf = NULL
  /\ call.rc = "DELTA_SOURCE_EMPTY"
  /\ index.mem # NULL
  /\ index.num_entries > 0

\* C13: create_delta returns DELTA_BUFFER_EMPTY for a null or zero-length
\* target, also when the index is null, and DELTA_INDEX_NEEDED for a
\* non-empty target with a null index, and stores neither delta_size nor
\* delta_data; create_delta_index_from_delta returns DELTA_INDEX_NEEDED
\* for a null old index whatever the source is, and stores nothing.
ArgumentChecks ==
  /\ (pc = "returned" /\ call.op = "create_delta") =>
       /\ (call.trg = NULL \/ InfoSize(call.trg) = 0) =>
            /\ call.rc = "DELTA_BUFFER_EMPTY"
            /\ ~call.written
            /\ "delta_data" \notin DOMAIN call
            /\ "delta_size" \notin DOMAIN call
       /\ (call.trg # NULL /\ InfoSize(call.trg) > 0 /\ index.mem = NULL) =>
            /\ call.rc = "DELTA_INDEX_NEEDED"
            /\ ~call.written
            /\ "delta_data" \notin DOMAIN call
            /\ "delta_size" \notin DOMAIN call
  /\ (pc = "returned" /\ call.op = "create_delta_index_from_delta"
        /\ call.old_null) =>
       /\ call.rc = "DELTA_INDEX_NEEDED"
       /\ ~call.written
       /\ index.mem = NULL
       /\ srcs = <<>>

\* create_delta has refused an empty target of a non-null address while
\* the index was null as well.
EmptyTargetBeforeIndex ==
  /\ pc = "returned"
  /\ call.op = "create_delta"
  /\ call.trg # NULL
  /\ InfoSize(call.trg) = 0
  /\ index.mem = NULL
  /\ call.rc = "DELTA_BUFFER_EMPTY"

(* ----------------------------------------------------------------------- *)
(* A target that is its only source                                        *)
(* ----------------------------------------------------------------------- *)
\* create_delta has returned the uncapped delta of a buffer against the
\* index of that buffer alone.
SelfEncoded ==
  /\ Encoded
  /\ call.max_size = 0
  /\ Len(srcs) = 1
  /\ srcs[1].buf = call.trg

\* stream is the header for n bytes and one copy of n bytes from offset 0.
OneCopyOfAll(stream, n) ==
  /\ ReadSize(stream, 0, 1, 0).ok
  /\ ReadSize(stream, 0, 1, 0).size = n
  /\ Len(StreamOps(stream)) = 1
  /\ StreamOps(stream)[1].kind = "copy"
  /\ StreamOps(stream)[1].off = 0
  /\ StreamOps(stream)[1].len = n
  /\ StreamOps(stream)[1].next = Len(stream)

\* C14 as stated: for every non-empty source S the uncapped delta of S
\* against the index of S alone is the header and exactly one copy with
\* offset 0 and length |S|, without an insert.
SelfCopyAnySize ==
  SelfEncoded => OneCopyOfAll(call.delta_data, BufLen(call.trg))

\* C14 amended: for every source S of at least RABIN_WINDOW + 4 and at most
\* 65536 bytes the uncapped delta of S against the index of S alone is the
\* header and exactly one copy with offset 0 and length |S|, without an
\* insert.
SelfCopy ==
  (/\ SelfEncoded
   /\ BufLen(call.trg) >= RABIN_WINDOW + 4
   /\ BufLen(call.trg) <= 65536)
  => OneCopyOfAll(call.delta_data, BufLen(call.trg))

\* A buffer was encoded against itself as one copy that took back all the
\* literals of the first window.
SelfCopySeen ==
  /\ SelfEncoded
  /\ BufLen(call.trg) >= RABIN_WINDOW + 4
  /\ BufLen(call.trg) <= 65536
  /\ Len(call.emits) = 1
  /\ call.emits[1].stolen = RABIN_WINDOW
  /\ call.emits[1].pending = RABIN_WINDOW
  /\ call.emits[1].msize = BufLen(call.trg)

(* ----------------------------------------------------------------------- *)
(* The match a probe keeps                                                 *)
(* ----------------------------------------------------------------------- *)
\* The next pass of the scan loop probes the index.
Probing ==
  /\ pc = "scan"
  /\ cd.data < cd.top
  /\ ~cd.broke
  /\ cd.msize < 4096

\* The fingerprint the probe looks up.
ProbedVal == SlideWindow(cd.val, cd.trg, cd.data)

\* The slots of the probed bucket whose entry has the probed fingerprint.
EqualSlots ==
  {s \in LiveSlots(index, AndMask(ProbedVal, index.hash_mask)) :
     Slot(index, s).val = ProbedVal}

\* How far the source bytes at entry e and the target bytes at the scan
\* position agree, as far as both buffers allow.
Verified(e) ==
  MatchLength(srcs[e.src].buf, e.ptr, cd.trg, cd.data,
              IF srcs[e.src].size - e.ptr > cd.top - cd.data
              THEN cd.top - cd.data ELSE srcs[e.src].size - e.ptr)

VerifiedLengths == {cd.msize} \cup {Verified(Slot(index, s)) : s \in EqualSlots}

Longest(lengths) == CHOOSE n \in lengths : \A m \in lengths : m <= n

\* C15: at a probed position where no candidate reaches 4096 bytes, the
\* match create_delta keeps is the longest verified match among the
\* carried-over match and all entries of the probed bucket with the probed
\* fingerprint, whether the index holds one source or several.
LongestKept ==
  (Probing /\ Longest(VerifiedLengths) < 4096)
    => Probe(cd, index).msize = Longest(VerifiedLengths)

(* ----------------------------------------------------------------------- *)
(* Merging a source into an index                                          *)
(* ----------------------------------------------------------------------- *)
\* A merge routine has returned DELTA_OK for a source merged into an old
\* index.
Merged ==
  /\ IndexBuilt
  /\ ~call.old_null

AllSlots(idx) == 0..(Len(idx.entries) - 1)
Buckets(idx) == 0..idx.hash_mask

\* The bucket whose slot range holds slot s.
BucketOf(idx, s) ==
  CHOOSE i \in Buckets(idx) :
    BucketStart(idx, i) <= s /\ s < BucketStart(idx, i + 1)

\* The slots of bucket i that hold an entry of source src, and the empty
\* ones.
SlotsOf(idx, i, src) == {s \in LiveSlots(idx, i) : Slot(idx, s).src = src}
EmptySlots(idx, i) ==
  (BucketStart(idx, i)..(BucketStart(idx, i + 1) - 1)) \ LiveSlots(idx, i)

\* The slots that are empty in index old and hold an entry in index new.
Filled(old, new) ==
  {s \in AllSlots(old) : Slot(old, s).ptr = NULL /\ Slot(new, s).ptr # NULL}

\* The entries of the merged source fit into the empty slots of old, bucket
\* by bucket.
AllFit(old, new, src) ==
  /\ new.hash_mask = old.hash_mask
  /\ \A i \in Buckets(old) :
       Cardinality(SlotsOf(new, i, src)) <= Cardinality(EmptySlots(old, i))

\* C16: when the bucket count of a merge is that of the old index and every
\* new entry finds an empty slot in its bucket, create_delta_index returns
\* the old index itself without allocating; hash_mask and the bucket starts
\* are unchanged, every entry of the old index stays in its slot, each new
\* entry is in a formerly empty slot of bucket (val & hash_mask), and
\* num_entries has grown by the number of new entries.
FitInPlace ==
  (Merged /\ call.op = "create_delta_index") =>
    /\ call.same <=> AllFit(call.old, index, Len(srcs))
    /\ call.same =>
         /\ index.mem = call.old.mem
         /\ index.hash_mask = call.old.hash_mask
         /\ index.hash = call.old.hash
         /\ Len(index.entries) = Len(call.old.entries)
         /\ \A s \in AllSlots(call.old) :
              Slot(call.old, s).ptr # NULL
                => Slot(index, s) = Slot(call.old, s)
         /\ \A s \in Filled(call.old, index) :
              /\ Slot(index, s) \in call.added
              /\ AndMask(Slot(index, s).val, index.hash_mask)
                   = BucketOf(index, s)
         /\ Cardinality(Filled(call.old, index)) = Cardinality(call.added)
         /\ index.num_entries
              = call.old.num_entries + Cardinality(call.added)

\* create_delta_index has put the entries of a source into empty slots of
\* the old index and returned that index.
FitInPlaceSeen ==
  /\ Merged
  /\ call.op = "create_delta_index"
  /\ call.same
  /\ call.copied_count > 1

\* The entries an index holds, and the number of its slots that hold one.
LiveEntries(idx) ==
  {Slot(idx, s) : s \in {t \in AllSlots(idx) : Slot(idx, t).ptr # NULL}}

LiveCount(idx) ==
  Cardinality({s \in AllSlots(idx) : Slot(idx, s).ptr # NULL})

BucketsDense ==
  IndexBuilt =>
    /\ \A i \in Buckets(index) :
         /\ BucketStart(index, i) <= BucketStart(index, i + 1)
         /\ \A s \in LiveSlots(index, i) :
              /\ s = BucketStart(index, i) \/ Slot(index, s - 1).ptr # NULL
              /\ AndMask(Slot(index, s).val, index.hash_mask) = i
              /\ Slot(index, s).src # NULL
    /\ BucketStart(index, 0) = 0
    /\ BucketStart(index, index.hash_mask + 1) = Len(index.entries)
    /\ index.num_entries = LiveCount(index)

\* An index of several sources whose last source was put into holes of the
\* old index from a delta.
HolesFilled ==
  /\ Merged
  /\ call.op = "create_delta_index_from_delta"
  /\ call.same
  /\ call.num_inserted > 0
  /\ Len(srcs) >= 2
  /\ \E s \in AllSlots(index) : Slot(index, s).src = Len(srcs)
  /\ index.num_entries > call.old.num_entries

(* ----------------------------------------------------------------------- *)
(* Matches longer than one copy instruction                                *)
(* ----------------------------------------------------------------------- *)
\* A pass of the scan loop emits a copy in this step.
CopyEmitted ==
  /\ pc = "scan"
  /\ pc' = "scan"
  /\ Len(call'.emits) = Len(call.emits) + 1

LastEmit == call'.emits[Len(call'.emits)]

\* The length of the match the pass has verified: what the probe kept and
\* the bytes taken back from the pending literals.
WholeMatch == Probe(cd, index).msize + LastEmit.stolen

\* C19 as stated: a verified match longer than 65535 bytes is split; it is
\* never emitted as a single copy.
LongMatchSplit ==
  [][(CopyEmitted /\ WholeMatch > 65535)
       => /\ LastEmit.msize < WholeMatch
          /\ cd'.msize > 0]_vars

\* C19 amended: a verified match longer than 65536 bytes is never emitted
\* as a single copy: its first 65536 bytes are emitted as one copy and the
\* rest is carried over to the next pass, which emits a further copy if the
\* match it keeps has at least 4 bytes and a literal byte otherwise; a
\* match of up to 65536 bytes is emitted as a single copy.
LongMatchCut ==
  [][/\ (CopyEmitted /\ WholeMatch > 65536)
          => /\ LastEmit.msize = 65536
             /\ cd'.msize = WholeMatch - 65536
             /\ cd'.moff = LastEmit.local + 65536
             /\ cd'.data = cd.data - LastEmit.stolen + 65536
     /\ (CopyEmitted /\ WholeMatch <= 65536)
          => /\ LastEmit.msize = WholeMatch
             /\ cd'.msize = 0
     /\ (pc = "scan" /\ pc' = "scan" /\ cd.msize > 0)
          => IF Probe(cd, index).msize < 4
             THEN /\ call'.emits = call.emits
                  /\ cd'.data = cd.data + 1
             ELSE /\ CopyEmitted
                  /\ Probe(cd, index).msize >= cd.msize
                  /\ LastEmit.stolen = 0]_vars

\* A copy of 65536 bytes was emitted and two bytes of its match were
\* carried over, too few for a copy.
ShortRemainderSeen ==
  /\ pc = "scan"
  /\ call.emits # <<>>
  /\ call.emits[Len(call.emits)].msize = 65536
  /\ cd.msize = 2

(* ----------------------------------------------------------------------- *)
(* Literals a copy takes back                                              *)
(* ----------------------------------------------------------------------- *)
\* The count slot of the literals that are pending before this step.
CountSlot == cd.outpos - cd.inscnt - 1

\* The copy e, emitted in this step after the probe kept the match at
\* local offset moff of its source, took back the last literals of the
\* pending run as far as they agree with the source.
StolenAll(e, ref_data, moff) ==
  /\ e.pending = cd.inscnt
  /\ e.stolen \in 0..e.pending
  /\ e.local = moff - e.stolen
  /\ \A k \in 1..e.stolen :
       Byte(ref_data, moff - k) = Byte(cd.trg, cd.data - k)
  /\ \/ e.stolen = e.pending
     \/ e.local = 0
     \/ Byte(ref_data, e.local - 1) # Byte(cd.trg, cd.data - e.stolen - 1)

\* What the step that emitted the copy e has left of the pending run in the
\* output.
RunLeft(e) ==
  /\ IF e.stolen < e.pending
     THEN \* the run keeps its first literals and their count
          /\ e.at = cd.outpos - e.stolen
          /\ cd'.out[CountSlot + 1] = e.pending - e.stolen
          /\ \A p \in (CountSlot + 1)..(e.at - 1) :
               cd'.out[p + 1] = cd.out[p + 1]
     ELSE IF e.pending > 0
     THEN \* the copy starts in the count slot of the run
          e.at = CountSlot
     ELSE e.at = cd.outpos
  /\ \A p \in 0..(CountSlot - 1) : cd'.out[p + 1] = cd.out[p + 1]
  /\ cd'.out[e.at + 1] >= 128
  /\ cd'.inscnt = 0

\* C20: when a copy is emitted while literals are pending, the copy is
\* extended backward byte by byte while the source byte before the match
\* equals the target byte before the scan position; it stops only where
\* the bytes differ, at local offset 0 of the source, or when the pending
\* literals are used up, never before the start of the pending run; the
\* bytes taken back leave the run, and a run that is emptied leaves no
\* count byte in the output.
StealBackMaximal ==
  [][CopyEmitted =>
       /\ StolenAll(LastEmit, srcs[LastEmit.source].buf,
                    Probe(cd, index).moff)
       /\ RunLeft(LastEmit)]_vars

\* A copy has taken back literals up to offset 0 of its source and left
\* one literal of the run in place.
StolenToSourceStart ==
  /\ Encoded
  /\ \E k \in 1..Len(call.emits) :
       /\ call.emits[k].local = 0
       /\ call.emits[k].stolen = RABIN_WINDOW
       /\ call.emits[k].pending = RABIN_WINDOW + 1
  /\ StreamOps(call.delta_data)[1].kind = "insert"
  /\ StreamOps(call.delta_data)[1].len = 1

(* ----------------------------------------------------------------------- *)
(* Runs of windows with one fingerprint                                    *)
(* ----------------------------------------------------------------------- *)
\* A call of create_delta_index has returned an index and the call record
\* holds the locals of its scan.
ScanReturned ==
  /\ pc = "returned"
  /\ call.op = "create_delta_index"
  /\ call.rc = "DELTA_OK"

\* The fingerprints of the windows a scan of buffer b visits, lowest
\* offset first: window j is the 16 bytes that end at offset j * stride.
StrideVals(b, budget) ==
  [j \in 1..budget.num_entries |->
     WindowVal(b, j * budget.stride - RABIN_WINDOW)]

\* The windows that start a run of equal fingerprints.
RunStarts(vals) ==
  {j \in DOMAIN vals : j = 1 \/ vals[j - 1] # vals[j]}

\* The runs of bucket i under hmask.
RunsOf(vals, hmask, i) ==
  {j \in RunStarts(vals) : AndMask(vals[j], hmask) = i}

RunsOnceFor(scanned, stride, vals, hmask, old_entries) ==
  /\ \A i \in 0..hmask :
       /\ Len(scanned.hash[i + 1]) = Cardinality(RunsOf(vals, hmask, i))
       /\ {e.ptr : e \in {scanned.hash[i + 1][k] :
                            k \in 1..Len(scanned.hash[i + 1])}}
            = {j * stride : j \in RunsOf(vals, hmask, i)}
       /\ \A k \in 1..Len(scanned.hash[i + 1]) :
            scanned.hash[i + 1][k].val
              = vals[scanned.hash[i + 1][k].ptr \div stride]
       /\ scanned.hash_count[i + 1] = Cardinality(RunsOf(vals, hmask, i))
  /\ scanned.num_entries = Cardinality(RunStarts(vals))
  /\ scanned.total_num_entries = old_entries + Cardinality(RunStarts(vals))

\* C21: when create_delta_index has scanned a source, every run of
\* consecutive stride windows with one fingerprint has exactly one entry in
\* the table, the entry points at the lowest window of the run, and the
\* bucket's hash_count and the two entry totals count the run once.
RunsCountedOnce ==
  (ScanReturned /\ call.scan.budget.num_entries > 0) =>
    RunsOnceFor(call.scan.scanned, call.scan.budget.stride,
                StrideVals(call.buf, call.scan.budget), call.scan.hsize - 1,
                IF call.old.mem # NULL THEN call.old.num_entries ELSE 0)

\* A scan at the stride of one window that met a run of several windows.
RunCollapsed ==
  /\ ScanReturned
  /\ call.scan.budget.stride = RABIN_WINDOW
  /\ call.scan.budget.num_entries > call.scan.scanned.num_entries + 1
  /\ call.scan.scanned.num_entries > 1

(* ----------------------------------------------------------------------- *)
(* The bucket count of create_delta_index                                  *)
(* ----------------------------------------------------------------------- *)
RECURSIVE PowerOfTwoFrom(_, _)
PowerOfTwoFrom(p, n) == IF p >= n THEN p ELSE PowerOfTwoFrom(2 * p, n)

\* The next power of two greater than or equal to n.
NextPowerOfTwo(n) == PowerOfTwoFrom(1, n)

\* The windows of the source of the call that returned and the entries of
\* the index it was given.
WindowCount == (BufLen(call.buf) - 1) \div RABIN_WINDOW
OldCount == IF call.old.mem # NULL THEN call.old.num_entries ELSE 0
OldBuckets == IF call.old.mem # NULL THEN call.old.hash_mask + 1 ELSE 0

\* A call of create_delta_index has returned an index to the caller.
IndexReturned ==
  /\ pc = "returned"
  /\ call.op = "create_delta_index"
  /\ call.rc = "DELTA_OK"

BucketsFor(wanted, old_buckets) ==
  IF old_buckets > wanted THEN old_buckets ELSE wanted

\* C22 as stated: the bucket count is the next power of two greater than or
\* equal to total_entries / 4, total_entries being the entries of the old
\* index plus the windows of the new source, unless the old index has more
\* buckets, whose count is used then.
BucketCountRule ==
  IndexReturned =>
    index.hash_mask + 1
      = BucketsFor(NextPowerOfTwo((OldCount + WindowCount) \div 4), OldBuckets)

AtLeastSixteen(n) == IF n < 2^4 THEN 2^4 ELSE n

\* C22 amended: the bucket count is the next power of two greater than or
\* equal to total_entries / 4, but never fewer than 16, unless the old
\* index has more buckets, whose count is used then.
BucketCountFloor ==
  IndexReturned =>
    index.hash_mask + 1
      = BucketsFor(AtLeastSixteen(
                     NextPowerOfTwo((OldCount + WindowCount) \div 4)),
                   OldBuckets)

\* A merge whose bucket count comes from the number of entries and is
\* above both 16 and the bucket count of the old index.
BucketCountGrown ==
  /\ IndexReturned
  /\ call.old.mem # NULL
  /\ index.hash_mask + 1 > OldBuckets
  /\ index.hash_mask + 1 > 2^4

(* ----------------------------------------------------------------------- *)
(* The windows create_delta_index_from_delta takes out of a delta          *)
(* ----------------------------------------------------------------------- *)
\* A call of create_delta_index_from_delta has returned.
DeltaCallReturned ==
  pc = "returned" /\ call.op = "create_delta_index_from_delta"

\* The insert opcodes of a delta as its reader sees them.
InsertsOf(ops) == {ops[k] : k \in {n \in 1..Len(ops) : ops[n].kind = "insert"}}

\* The window of entry e lies in the literal bytes of insert op, and four
\* literal bytes or more of op start at e.ptr.
InsideInsert(e, op) ==
  /\ e.ptr - RABIN_WINDOW + 1 >= op.off
  /\ e.ptr + 4 <= op.off + op.len

TakenFromInserts(entries, inserts, b) ==
  /\ \A e \in entries :
       /\ \E op \in inserts : InsideInsert(e, op)
       /\ e.val = WindowVal(b, e.ptr - RABIN_WINDOW)
  /\ Cardinality(entries) <= (BufLen(b) - 1) \div RABIN_WINDOW

\* C23: every entry create_delta_index_from_delta adds has its window
\* inside the literal bytes of one insert opcode of the delta, with at
\* least 4 literal bytes of that insert from its pointer on, and the
\* entries collected are never more than (size - 1) / RABIN_WINDOW.
InsertWindowsOnly ==
  DeltaCallReturned =>
    /\ ~call.overflow
    /\ call.rc = "DELTA_OK" =>
         TakenFromInserts(call.added, InsertsOf(StreamOps(Buffers[call.buf])),
                          call.buf)

\* A delta with a copy opcode and several inserts that gave entries.
InsertWindowsSeen ==
  /\ DeltaCallReturned
  /\ call.rc = "DELTA_OK"
  /\ Cardinality(call.added) > 1
  /\ \E k \in 1..Len(StreamOps(Buffers[call.buf])) :
       StreamOps(Buffers[call.buf])[k].kind = "copy"

(* ----------------------------------------------------------------------- *)
(* The byte budget of create_delta_index                                   *)
(* ----------------------------------------------------------------------- *)
\* A call of create_delta_index with a source that has bytes and a budget
\* has ended.
BudgetCallEnded ==
  /\ pc \in {"returned", "killed"}
  /\ call.op = "create_delta_index"
  /\ call.buf # NULL
  /\ BufLen(call.buf) > 0
  /\ call.max_bytes_to_index > 0

\* What the budget allows for a source of size bytes.
WithinBudget(budget, size, max_bytes_to_index) ==
  /\ budget.stride >= RABIN_WINDOW
  /\ (size - 1) \div RABIN_WINDOW > max_bytes_to_index \div RABIN_WINDOW =>
       budget.stride * (max_bytes_to_index \div RABIN_WINDOW) <= size - 1
         /\ (budget.stride + 1) * (max_bytes_to_index \div RABIN_WINDOW)
              > size - 1
  /\ budget.num_entries <= max_bytes_to_index \div RABIN_WINDOW
  /\ \A j \in 1..budget.num_entries :
       /\ j * budget.stride - RABIN_WINDOW + 1 >= 0
       /\ j * budget.stride <= size - 1

\* C24: for a source with bytes and max_bytes_to_index > 0,
\* create_delta_index ends with a return code and without an arithmetic
\* fault, its stride is at least RABIN_WINDOW and is (size - 1) /
\* max_entries when the budget cuts the number of windows, it indexes at
\* most max_bytes_to_index / RABIN_WINDOW windows and every window it reads
\* lies in the source buffer.
BudgetKept ==
  BudgetCallEnded =>
    /\ pc = "returned"
    /\ call.rc # "SIGFPE"
    /\ call.rc = "DELTA_OK" =>
         WithinBudget(call.scan.budget, BufLen(call.buf),
                      call.max_bytes_to_index)

(* ----------------------------------------------------------------------- *)
(* The range of a copy                                                     *)
(* ----------------------------------------------------------------------- *)
\* A call of create_delta has emitted a copy; the last one is LastCopy.
CopySeen ==
  /\ pc \in {"scan", "returned"}
  /\ call.op = "create_delta"
  /\ call.emits # <<>>

LastCopy == call.emits[Len(call.emits)]

\* Copy e lies in the source it was matched in and ends no later than the
\* source last names.
InsideSource(e, source, last) ==
  /\ e.local < source.size
  /\ e.local + e.msize <= source.size
  /\ e.moff = e.local + source.agg_offset
  /\ e.moff + e.msize <= last.size + last.agg_offset

\* C25: every copy create_delta emits has a local offset below the size of
\* the matched source, local offset + length at most that size and global
\* offset + length at most last_src.size + last_src.agg_offset, so both
\* assertions of the copy branch hold, whatever builds and merges made the
\* index.
CopyInsideSource ==
  /\ CopySeen =>
       InsideSource(LastCopy, srcs[LastCopy.source], srcs[index.last_src])
  /\ pc = "scan" => cd.asserted
  /\ (pc = "returned" /\ call.op = "create_delta" /\ call.written) =>
       call.asserted

\* A copy emitted against an index whose last merge, of a delta without a
\* window, returned the old index and left last_src at the source before.
CopyAfterEarlyReturn ==
  /\ CopySeen
  /\ index.last_src < Len(srcs)

(* ----------------------------------------------------------------------- *)
(* The progress of the scan loop                                           *)
(* ----------------------------------------------------------------------- *)
\* This step is a pass of the scan loop.
PassTaken ==
  /\ pc = "scan"
  /\ pc' = "scan"
  /\ cd'.passes = cd.passes + 1

\* This step leaves the scan loop.
LoopLeft == pc = "scan" /\ pc' = "returned"

\* The loop ends at the end of the target unless max_size was exceeded.
EndsAtTop(f) ==
  \/ f.data = f.top
  \/ f.broke /\ f.max_size # 0 /\ f.outpos > f.max_size

\* A pass whose probe kept a match of msize bytes moved the position by
\* moved bytes; emits are the copies of the call after the pass.
MovedByMatch(msize, moved, emits) ==
  IF msize < 4 THEN moved = 1 ELSE moved = msize

MovedByCopy(msize, moved, emits) ==
  IF msize < 4 THEN moved = 1
  ELSE IF msize + emits[Len(emits)].stolen <= 65536 THEN moved = msize
  ELSE moved = 65536 - emits[Len(emits)].stolen /\ moved >= 4

\* C26 as stated: create_delta terminates; a pass of the scan loop moves
\* the target position by 1 in the insert branch and by the length of the
\* match before the steal-back, at least 4, in the copy branch; the
\* position never passes the end of the target and the loop ends at the end
\* of the target unless max_size was exceeded.
ScanAdvancesByMatch ==
  /\ [][/\ PassTaken =>
             /\ MovedByMatch(Probe(cd, index).msize, cd'.data - cd.data,
                             call'.emits)
             /\ cd'.data <= cd'.top
        /\ LoopLeft => EndsAtTop(cd)]_vars
  /\ (pc = "scan") ~> (pc = "returned")

\* C26 amended: as stated, but a pass whose match, with the bytes taken
\* back, is longer than 65536 bytes moves the position by 65536 less the
\* bytes taken back, which is at least 4.
ScanAdvances ==
  /\ [][/\ PassTaken =>
             /\ MovedByCopy(Probe(cd, index).msize, cd'.data - cd.data,
                            call'.emits)
             /\ cd'.data <= cd'.top
        /\ LoopLeft => EndsAtTop(cd)]_vars
  /\ (pc = "scan") ~> (pc = "returned")

\* A pass has emitted a copy of 65536 bytes that starts with bytes taken
\* back and has carried over enough of its match for another copy.
CutCopySeen ==
  /\ pc = "scan"
  /\ call.emits # <<>>
  /\ LastCopy.msize = 65536
  /\ LastCopy.stolen > 0
  /\ cd.msize >= 4

(* ----------------------------------------------------------------------- *)
(* Calls of create_delta_index_from_delta that add nothing                 *)
(* ----------------------------------------------------------------------- *)
\* Delta b has no window to index: it has at most RABIN_WINDOW bytes, or
\* none of its inserts is longer than RABIN_WINDOW + 3.
NoWindowIn(b) ==
  \/ BufLen(b) <= RABIN_WINDOW
  \/ \A op \in InsertsOf(StreamOps(Buffers[b])) : op.len <= RABIN_WINDOW + 3

\* C27: a call of create_delta_index_from_delta that returns
\* DELTA_SOURCE_BAD, DELTA_SOURCE_EMPTY or DELTA_INDEX_NEEDED leaves the old
\* index as it was and does not write *fresh; a call that returns DELTA_OK
\* for a delta without a window to index stores the old index in *fresh and
\* leaves it as it was.
RefusalKeepsIndex ==
  DeltaCallReturned =>
    /\ call.rc \in {"DELTA_SOURCE_BAD", "DELTA_SOURCE_EMPTY",
                    "DELTA_INDEX_NEEDED"} =>
         /\ ~call.written
         /\ index = call.old
    /\ (call.rc = "DELTA_OK" /\ NoWindowIn(call.buf)) =>
         /\ call.written
         /\ call.same
         /\ index = call.old

\* A delta of more than RABIN_WINDOW bytes was parsed to its end and had no
\* window to index.
NothingToIndexSeen ==
  /\ DeltaCallReturned
  /\ call.rc = "DELTA_OK"
  /\ BufLen(call.buf) > RABIN_WINDOW
  /\ NoWindowIn(call.buf)
  /\ index = call.old

(* ----------------------------------------------------------------------- *)
(* The candidate a probe selects                                           *)
(* ----------------------------------------------------------------------- *)
\* The verified length of every candidate of the probed bucket.
CandidateLengths == [s \in EqualSlots |-> Verified(Slot(index, s))]

\* The first slot in bucket order among those of the longest candidates.
FirstOf(lens, longest) ==
  CHOOSE s \in DOMAIN lens :
    /\ lens[s] = longest
    /\ \A t \in DOMAIN lens : t < s => lens[t] < longest

\* The probe p has selected the first of the candidates with the longest
\* verified match, and has kept the match f carried when no candidate is
\* strictly longer.
SelectsFirstLongest(f, p, lens, longest) ==
  IF longest > f.msize
  THEN /\ p.msize = longest
       /\ p.msource = Slot(index, FirstOf(lens, longest)).src
       /\ p.moff = Slot(index, FirstOf(lens, longest)).ptr
  ELSE /\ p.msize = f.msize
       /\ p.msource = f.msource
       /\ p.moff = f.moff

\* C28: among the candidates of the probed bucket with the same maximal
\* verified match length create_delta selects the first in bucket order,
\* and a later candidate replaces the current best only when its match is
\* strictly longer.
EarliestOfLongest ==
  Probing =>
    SelectsFirstLongest(cd, Probe(cd, index), CandidateLengths,
                        Longest(VerifiedLengths))


(* ----------------------------------------------------------------------- *)
(* C29  Sliding equals rescanning.  A fingerprint computed from 0 over a   *)
(* window, xored with U of the window's first byte and stepped with the    *)
(* byte after the window, is the fingerprint computed from 0 over the      *)
(* window one byte further on.  At every position where create_delta       *)
(* probes, its rolling fingerprint is the fingerprint the index builder    *)
(* computes for the same 16 bytes.  Every fingerprint, the rolling one     *)
(* after U is xored in included, is below 2^31, so that val >> RABIN_SHIFT *)
(* is in 0..255.                                                           *)
(* ----------------------------------------------------------------------- *)
\* val < 2^31
Below31(val) == val[1] < 32768

SlidEqualsRescanned ==
  call.op = "rabin_hash" =>
    /\ call.val = rabin_hash(call.buf, call.data)
    /\ Below31(call.val)
    /\ Below31(call.removed)
    /\ ShrRabin(call.removed) \in 0..255

RollingEqualsStored ==
  Probing =>
    /\ cd.val = rabin_hash(cd.trg, cd.data - RABIN_WINDOW)
    /\ ProbedVal = WindowVal(cd.trg, cd.data - RABIN_WINDOW)
    /\ Below31(cd.val)
    /\ Below31(Xor32(cd.val, U[Byte(cd.trg, cd.data - RABIN_WINDOW) + 1]))
    /\ Below31(ProbedVal)

StoredBelow31 ==
  index.mem # NULL =>
    \A s \in 1..Len(index.entries) : Below31(index.entries[s].val)

SlidingEqualsRescanning ==
  SlidEqualsRescanned /\ RollingEqualsStored /\ StoredBelow31

\* A window that starts with a byte above 127 has been slid twice and the
\* fingerprint uses the high bits.
SlidTwice ==
  /\ call.op = "rabin_hash"
  /\ call.slides = 2
  /\ Byte(call.buf, call.data - 2) > 127
  /\ call.val[1] > 255

(* ----------------------------------------------------------------------- *)
(* C30  Every write create_delta makes into the output buffer is below the *)
(* buffer's capacity, for every target and every max_size.  As stated: at  *)
(* the start of each scan iteration outpos < outsize - MAX_OP_SIZE, one    *)
(* iteration writes at most MAX_OP_SIZE bytes, and a capacity recomputed   *)
(* from max_size is not smaller than the bytes written when the loop goes  *)
(* on.  Amended: the first clause holds at the start of each iteration     *)
(* after the first; the header, the first insert and the writes of the     *)
(* first iteration together take at most MAX_OP_SIZE bytes.                *)
(* ----------------------------------------------------------------------- *)
\* The scan loop is about to run an iteration.
IterationStarts == pc = "scan" /\ cd.data < cd.top /\ ~cd.broke

\* The output buffer holds what was written before the scan loop.
FirstWritesFit == pc = "scan" /\ cd.passes = 0 => Len(cd.out) <= cd.outsize

\* One iteration: every position written is below the capacity the buffer
\* has during the iteration, at most MAX_OP_SIZE positions above outpos are
\* written, and when the capacity was recomputed from max_size and the loop
\* goes on, it is not smaller than the bytes written.
IterationFits ==
  /\ Len(cd'.out) <= cd.outsize
  /\ Len(cd'.out) <= (IF Len(cd.out) > cd.outpos + MAX_OP_SIZE
                      THEN Len(cd.out) ELSE cd.outpos + MAX_OP_SIZE)
  /\ cd'.outpos <= cd.outpos + MAX_OP_SIZE
  /\ ( /\ cd'.outpos >= cd.outsize - MAX_OP_SIZE
       /\ cd.max_size # 0
       /\ cd'.outsize = cd.max_size + MAX_OP_SIZE + 1
       /\ ~cd'.broke
       => cd'.outpos <= cd'.outsize /\ Len(cd'.out) <= cd'.outsize )

\* The first iteration ends within the first MAX_OP_SIZE bytes.
FirstIterationFits == cd.passes = 0 => Len(cd'.out) <= MAX_OP_SIZE

WritesBelowCapacityAlways ==
  /\ [](FirstWritesFit
        /\ (IterationStarts => cd.outpos < cd.outsize - MAX_OP_SIZE))
  /\ [][IterationStarts /\ pc' = "scan" => IterationFits]_vars

WritesBelowCapacity ==
  /\ [](FirstWritesFit
        /\ (IterationStarts /\ cd.passes > 0
              => cd.outpos < cd.outsize - MAX_OP_SIZE))
  /\ [][IterationStarts /\ pc' = "scan"
          => IterationFits /\ FirstIterationFits]_vars

\* The capacity was recomputed from a max_size above the first capacity and
\* the loop goes on.
RecomputedAndGoesOn ==
  /\ IterationStarts
  /\ cd.passes > 0
  /\ cd.max_size > 8192
  /\ cd.outsize = cd.max_size + MAX_OP_SIZE + 1
=============================================================================
